---- MODULE Spec2Model ----
(***************************************************************************)
(* mcp-proxy: the request dispatch and aggregation engine of the HTTP      *)
(* proxy (Server in server.go, latest revision), its per-backend tool      *)
(* cache, the registry of backend clients and the asynchronous             *)
(* initialization pass of main.                                            *)
(*                                                                         *)
(* A backend client is identified by the name it is registered under.  A   *)
(* tool is the record [name, from]: `from` stands for the description and  *)
(* input schema, which are the ones the backend `from` supplied.           *)
(***************************************************************************)
EXTENDS Integers, Sequences, FiniteSets, TLC

\* ------------------------------------------------------------------ bounds

\* The clock stops at MaxTime; it advances TickStep at a time.
MaxTime == 90
TickStep == 30

\* Calls of Initialize, and of Close, made on one client.
MaxCalls == 3

\* ------------------------------------------------------- program constants

\* getToolsWithCache: time.Now().Add(60 * time.Second)
TTL == 60

\* ------------------------------------------------------------------ inputs

\* Names a configuration file may give to backends.  In byte order "A" <
\* "B" < "a".
BackendNames == {"A", "B", "a"}

\* Names of tools backends offer, and "z", which the catalogs below never
\* offer.
ToolNames == {"x", "y"}
CallNames == {"x", "y", "z"}

\* What a backend may answer to ListTools: tool names, unique within one
\* backend, in the backend's own order.
Catalogs == {<<>>, <<"x">>, <<"y">>, <<"x", "y">>, <<"y", "x">>}

\* Marks a value that is not there: a missing map entry, a missing field.
Absent == "absent"

\* ------------------------------------------------------------ pure helpers

\* The bytes of a name, as Go compares strings.
Bytes(s) ==
    CASE s = "A" -> <<65>>
      [] s = "B" -> <<66>>
      [] s = "a" -> <<97>>
      [] OTHER -> <<>>

\* s < t for Go strings: bytewise, a proper prefix first.
RECURSIVE BytesLess(_, _)
BytesLess(u, v) ==
    IF v = <<>> THEN FALSE
    ELSE IF u = <<>> THEN TRUE
    ELSE IF Head(u) # Head(v) THEN Head(u) < Head(v)
    ELSE BytesLess(Tail(u), Tail(v))

StringLess(s, t) == BytesLess(Bytes(s), Bytes(t))

\* Insert s into the sorted sequence q.
RECURSIVE InsertSorted(_, _)
InsertSorted(s, q) ==
    IF q = <<>> THEN <<s>>
    ELSE IF StringLess(s, Head(q)) THEN <<s>> \o q
    ELSE <<Head(q)>> \o InsertSorted(s, Tail(q))

RECURSIVE SortStringsLoop(_, _)
SortStringsLoop(q, acc) ==
    IF q = <<>> THEN acc ELSE SortStringsLoop(Tail(q), InsertSorted(Head(q), acc))

\* The mutant of SortStrings: the names stay in map-iteration order.
SortStringsSkipped(q) == q

\* sort.Strings
SortStrings(q) == SortStringsLoop(q, <<>>)

\* The orders in which `for name := range m` may visit the keys S of a map.
RangeOrders(S) ==
    {q \in [1..Cardinality(S) -> S] : \A a, b \in 1..Cardinality(S) : a # b => q[a] # q[b]}

SeqToSet(q) == {q[n] : n \in 1..Len(q)}

\* The tools backend b answers when its catalog is c.
ToolsOf(b, c) == [n \in 1..Len(c) |-> [name |-> c[n], from |-> b]]

HasTool(tools, name) == \E n \in 1..Len(tools) : tools[n].name = name

\* ------------------------------------------------------------------- state

VARIABLES
    splitMode,       \* Server.splitMode
    mcpClients,      \* Server.mcpClients: the names registered (the map's keys)
    initMu,          \* Server.initMu: [readers, writer, pending]
    toolsCache,      \* Server.toolsCache: name -> Entry(tools) or NoEntry
    cacheExpiry,     \* Server.cacheExpiry: name -> Expiry(t) or NoExpiry
    cacheMu,         \* Server.cacheMu: "free", or the goroutine holding Lock
    initPc,          \* where main's initialization goroutine is
    initTodo,        \* the configured backends the goroutine has not visited
    tempMcpClients,  \* its local tempMcpClients
    cfgDisabled,     \* the configured backends with _extensions.disabled
    extensions,      \* MCPClientConfig.Extensions of each backend: its tool lists
    client,          \* one MCPClient: its sync.Once values, stderrCancel, history
    created,         \* history: the outcomes of NewMCPClient for each name
    now,             \* time.Now()
    catalog,         \* what each backend answers to ListTools at present
    procs,           \* the goroutines that run: request handlers or callers
    pc,              \* where each goroutine is
    req,             \* the request a handler serves
    loc,             \* each goroutine's local variables
    resp,            \* the response a handler wrote
    toolsBy,         \* history: which goroutine wrote toolsCache[name]
    expiryBy,        \* history: which goroutine wrote cacheExpiry[name]
    prev             \* history: each caller's previous getToolsWithCache

vars ==
    <<splitMode, mcpClients, initMu, toolsCache, cacheExpiry, cacheMu, initPc,
      initTodo, tempMcpClients, cfgDisabled, extensions, client, created, now, catalog, procs,
      pc, req, loc, resp, toolsBy, expiryBy, prev>>

serverVars ==
    <<splitMode, mcpClients, initMu, initPc, initTodo, tempMcpClients,
      cfgDisabled, extensions, client, created>>
cacheVars == <<toolsCache, cacheExpiry, cacheMu, toolsBy, expiryBy>>

AllProcs == {"h1", "h2", "h3"}

\* config.Extensions == nil, as a value: ext tells whether there are any.
NoExtensions == [ext |-> FALSE, allow |-> <<>>, deny |-> <<>>]

\* The MCPClient NewMCPClient returns: neither sync.Once has run ("no", then
\* "running", then "done"), stderrCancel is nil; history: the stderr
\* goroutines started, the calls of stderrCancel and of the underlying
\* client's Close, the calls of Initialize and Close made, the calls of Close
\* that returned, and the order in which stderrCancel was assigned ("set")
\* and tested by Close ("closing").
NewClient ==
    [initOnce |-> "no", closeOnce |-> "no", stderrCancel |-> FALSE,
     started |-> 0, cancelled |-> 0, closed |-> 0,
     initCalls |-> 0, closeCalls |-> 0, closeReturns |-> 0, log |-> <<>>]

NoReq == [kind |-> "none"]
NoResp == [kind |-> Absent]

\* A map entry of toolsCache and of cacheExpiry, and the missing entry.
Entry(tools) == [exists |-> TRUE, tools |-> tools]
NoEntry == [exists |-> FALSE, tools |-> <<>>]
Expiry(t) == [exists |-> TRUE, at |-> t]
NoExpiry == [exists |-> FALSE, at |-> 0]

\* A goroutine's locals before it has run anything.
NoLoc ==
    [ \* getToolsWithCache: serverName, where it returns to, its result
      gServer |-> Absent, gRet |-> Absent, got |-> <<>>, gErr |-> FALSE,
      \* history of the running getToolsWithCache: found a valid entry, when
      \* it read the cache, ListTools calls it issued, what ListTools returned
      gHit |-> FALSE, gReadAt |-> 0, gCalls |-> 0, gFetched |-> <<>>,
      \* history: the entry it saw under RLock, when it stored, and the
      \* writer of the entry it returned
      gSeen |-> [tools |-> NoEntry, expiry |-> NoExpiry], gStoredAt |-> 0,
      gBy |-> Absent,
      \* history: every read of s.mcpClients this request made, whether it
      \* held s.initMu then, and whether the goroutine held the write lock
      reads |-> {},
      \* history: calls of s.initMu.RLock() and RUnlock() this request made,
      \* and how many of the RUnlock() calls it made holding no read lock
      rlocks |-> 0, runlocks |-> 0, unheld |-> 0,
      \* listAllTools and callToolAuto
      serverNames |-> <<>>, i |-> 0, tools |-> <<>>, j |-> 0,
      toolMap |-> {}, conflictLog |-> {}, order |-> <<>>, k |-> 0,
      firstServer |-> Absent, foundServers |-> <<>>,
      \* SplitModeHandler.mcpClient
      mcpClient |-> Absent,
      \* req.Params once validateJSONRPCRequest has passed
      params |-> Absent,
      \* history: the registry mapping the goroutine read last
      seen |-> {},
      \* history: the backends SplitModeHandler called ListTools of
      listed |-> {},
      \* history of the request: what the cache gave for each backend the
      \* outer loop visited, and the backends whose CallTool was called
      obtained |-> {}, invoked |-> <<>>,
      \* ctx.Done() of the request's context is closed; history: the backends
      \* whose call returned the context's error
      ctxDone |-> FALSE, late |-> <<>>,
      \* history: the backends whose ListTools of split mode or whose
      \* CallTool returned an error
      failed |-> <<>>,
      \* history: the arguments CallTool was called with
      sent |-> Absent,
      \* history: the backends whose CallTool refused the tool
      denied |-> <<>> ]

\* What a caller keeps of a finished getToolsWithCache.
Summary(l) ==
    [server |-> l.gServer, err |-> l.gErr, got |-> l.got, hit |-> l.gHit,
     calls |-> l.gCalls, storedAt |-> l.gStoredAt]

NoPrev == Summary(NoLoc)

\* The select of the split-mode handlers, whose one step is the backend call:
\* a context that is done was done before the select (the request ends
\* there) or became so while the call was pending.
Early(l) == IF l.ctxDone THEN BOOLEAN ELSE {FALSE}

\* The mutant of Outcomes: the backend call does not look at the context.
OutcomesAny(l) == BOOLEAN

\* c.client.ListTools(ctx, req) and c.client.CallTool(ctx, req): the backend
\* answers or fails; under a context that is done the call returns its error.
Outcomes(l) == IF l.ctxDone THEN {FALSE} ELSE BOOLEAN

\* The mutant of Arguments: the field goes to the backend as it came.
ArgumentsAsSent(r) == r.args

\* args, _ := params["arguments"].(map[string]interface{}); a field that is
\* missing or no object gives make(map[string]interface{}).
Arguments(r) == IF r.args = "object" THEN "object" ELSE "empty"

\* history: the call to backend b returned, with an error unless ok.
Failed(q, ok, b) == IF ok THEN q ELSE Append(q, b)

\* history: the call to backend b returned; with ctx done it is counted late.
Late(l, b) == IF l.ctxDone THEN Append(l.late, b) ELSE l.late

\* ------------------------------------------------------- getToolsWithCache

\* The mutant of Before: the operands are swapped.
BeforeSwapped(t, u) == u < t

\* The mutant of Before: an entry still counts at its expiry time.
BeforeOrAt(t, u) == t <= u

\* time.Time.Before
Before(t, u) == t < u

\* The mutant of CacheValid: the expiry is not looked at.
CacheValidNoExpiry(b) == toolsCache[b].exists

\* The test under cacheMu.RLock: an entry exists, has an expiry, and the
\* expiry is still ahead.
CacheValid(b) ==
    /\ toolsCache[b].exists
    /\ cacheExpiry[b].exists
    /\ Before(now, cacheExpiry[b].at)

\* The mutant of ExpiryFrom: the entry expires when it is stored.
ExpiryFromNoTTL(t) == t

\* time.Now().Add(60 * time.Second)
ExpiryFrom(t) == t + TTL

\* Whether name is one of the strings of list.
InList(list, name) == \E n \in 1..Len(list) : list[n] = name

\* The mutant of IsToolAllowed: the deny list is looked at first.
IsToolAllowedDenyFirst(ext, toolName) ==
    IF ~ext.ext THEN TRUE
    ELSE IF InList(ext.deny, toolName) THEN FALSE
    ELSE IF Len(ext.allow) > 0 THEN InList(ext.allow, toolName)
    ELSE TRUE

\* MCPClient.isToolAllowed: no extensions allow all; an allow list that is
\* not empty decides alone; else a tool of the deny list is refused.
IsToolAllowed(ext, toolName) ==
    IF ~ext.ext THEN TRUE
    ELSE IF Len(ext.allow) > 0 THEN InList(ext.allow, toolName)
    ELSE IF Len(ext.deny) > 0 THEN ~InList(ext.deny, toolName)
    ELSE TRUE

\* The mutant of CallToolDenied: CallTool does not look at the lists.
CallToolDeniedNever(b, name) == FALSE

\* MCPClient.CallTool: c.config.Extensions != nil && !c.isToolAllowed(name)
CallToolDenied(b, name) ==
    extensions[b].ext /\ ~IsToolAllowed(extensions[b], name)

\* The mutant of ClientListTools: the tools are not filtered.
ClientListToolsUnfiltered(b) == ToolsOf(b, catalog[b])

\* MCPClient.ListTools on backend b, when the backend answers: its tools,
\* without those isToolAllowed refuses when extensions are configured.
ClientListTools(b) ==
    IF ~extensions[b].ext THEN ToolsOf(b, catalog[b])
    ELSE SelectSeq(ToolsOf(b, catalog[b]),
                   LAMBDA t : IsToolAllowed(extensions[b], t.name))

\* What a reader holding cacheMu sees of backend b's entry.
Seen(b) == [tools |-> toolsCache[b], expiry |-> cacheExpiry[b]]

\* s.cacheMu.RLock(); the lookup; s.cacheMu.RUnlock(): a hit returns the
\* cached tools, a miss goes on to call the backend.
GetRead(p) ==
    /\ pc[p] = "get_read"
    /\ cacheMu = "free"
    /\ LET b == loc[p].gServer IN
       IF CacheValid(b)
       THEN /\ loc' = [loc EXCEPT ![p].got = toolsCache[b].tools, ![p].gErr = FALSE,
                                  ![p].gHit = TRUE, ![p].gReadAt = now,
                                  ![p].gCalls = 0, ![p].gFetched = <<>>,
                                  ![p].gSeen = Seen(b), ![p].gStoredAt = 0,
                                  ![p].gBy = toolsBy[b]]
            /\ pc' = [pc EXCEPT ![p] = loc[p].gRet]
       ELSE /\ loc' = [loc EXCEPT ![p].got = <<>>, ![p].gErr = FALSE,
                                  ![p].gHit = FALSE, ![p].gReadAt = now,
                                  ![p].gCalls = 0, ![p].gFetched = <<>>,
                                  ![p].gSeen = Seen(b), ![p].gStoredAt = 0,
                                  ![p].gBy = Absent]
            /\ pc' = [pc EXCEPT ![p] = "get_fetch"]
    /\ UNCHANGED <<serverVars, cacheVars, now, catalog, procs, req, resp, prev>>

\* The mutant of GetFetch: a caller that finds another goroutine between its
\* miss and its store waits for that one's entry instead of calling.
GetFetchSingleFlight(p) ==
    /\ pc[p] = "get_fetch"
    /\ LET b == loc[p].gServer
           busy == \E q \in procs \ {p} :
                      /\ loc[q].gServer = b
                      /\ pc[q] \in {"get_fetch", "get_lock", "get_store"}
       IN
       IF busy
       THEN /\ CacheValid(b)
            /\ cacheMu = "free"
            /\ loc' = [loc EXCEPT ![p].got = toolsCache[b].tools]
            /\ pc' = [pc EXCEPT ![p] = loc[p].gRet]
       ELSE /\ loc' = [loc EXCEPT ![p].gCalls = @ + 1,
                                  ![p].gFetched = ClientListTools(b)]
            /\ pc' = [pc EXCEPT ![p] = "get_lock"]
    /\ UNCHANGED <<serverVars, cacheVars, now, catalog, procs, req, resp, prev>>

\* The mutant of GetFetch: a failed refresh evicts the entry.
GetFetchEvict(p) ==
    /\ pc[p] = "get_fetch"
    /\ LET b == loc[p].gServer IN
       \E ok \in BOOLEAN :
          IF ok
          THEN /\ loc' = [loc EXCEPT ![p].gCalls = @ + 1,
                                     ![p].gFetched = ClientListTools(b)]
               /\ pc' = [pc EXCEPT ![p] = "get_lock"]
               /\ UNCHANGED cacheVars
          ELSE /\ loc' = [loc EXCEPT ![p].gCalls = @ + 1, ![p].gErr = TRUE,
                                     ![p].got = <<>>]
               /\ pc' = [pc EXCEPT ![p] = loc[p].gRet]
               /\ toolsCache' = [toolsCache EXCEPT ![b] = NoEntry]
               /\ cacheExpiry' = [cacheExpiry EXCEPT ![b] = NoExpiry]
               /\ UNCHANGED <<cacheMu, toolsBy, expiryBy>>
    /\ UNCHANGED <<serverVars, now, catalog, procs, req, resp, prev>>

\* client.ListTools(ctx): the backend answers with its tools, or the call
\* fails and getToolsWithCache returns the error.
GetFetch(p) ==
    /\ pc[p] = "get_fetch"
    /\ LET b == loc[p].gServer IN
       \E ok \in Outcomes(loc[p]) :
          IF ok
          THEN /\ loc' = [loc EXCEPT ![p].gCalls = @ + 1,
                                     ![p].gFetched = ClientListTools(b)]
               /\ pc' = [pc EXCEPT ![p] = "get_lock"]
          ELSE /\ loc' = [loc EXCEPT ![p].gCalls = @ + 1, ![p].gErr = TRUE,
                                     ![p].got = <<>>,
                                     ![p].late = Late(loc[p], b)]
               /\ pc' = [pc EXCEPT ![p] = loc[p].gRet]
    /\ UNCHANGED <<serverVars, cacheVars, now, catalog, procs, req, resp, prev>>

\* The mutant of GetLock: the tools are written without taking cacheMu.
GetLockNoLock(p) ==
    /\ pc[p] = "get_lock"
    /\ toolsCache' = [toolsCache EXCEPT ![loc[p].gServer] = Entry(loc[p].gFetched)]
    /\ toolsBy' = [toolsBy EXCEPT ![loc[p].gServer] = p]
    /\ pc' = [pc EXCEPT ![p] = "get_store"]
    /\ UNCHANGED <<serverVars, cacheExpiry, cacheMu, expiryBy, now, catalog,
                   procs, req, loc, resp, prev>>

\* s.cacheMu.Lock(); s.toolsCache[serverName] = tools
GetLock(p) ==
    /\ pc[p] = "get_lock"
    /\ cacheMu = "free"
    /\ cacheMu' = p
    /\ toolsCache' = [toolsCache EXCEPT ![loc[p].gServer] = Entry(loc[p].gFetched)]
    /\ toolsBy' = [toolsBy EXCEPT ![loc[p].gServer] = p]
    /\ pc' = [pc EXCEPT ![p] = "get_store"]
    /\ UNCHANGED <<serverVars, cacheExpiry, expiryBy, now, catalog, procs, req,
                   loc, resp, prev>>

\* The mutant of GetStore: getToolsWithCache returns without
\* s.cacheMu.Unlock().
GetStoreHolds(p) ==
    /\ pc[p] = "get_store"
    /\ cacheExpiry' = [cacheExpiry EXCEPT ![loc[p].gServer] = Expiry(ExpiryFrom(now))]
    /\ expiryBy' = [expiryBy EXCEPT ![loc[p].gServer] = p]
    /\ loc' = [loc EXCEPT ![p].got = loc[p].gFetched, ![p].gErr = FALSE,
                           ![p].gStoredAt = now, ![p].gBy = p]
    /\ pc' = [pc EXCEPT ![p] = loc[p].gRet]
    /\ UNCHANGED <<serverVars, toolsCache, toolsBy, cacheMu, now, catalog, procs,
                   req, resp, prev>>

\* s.cacheExpiry[serverName] = time.Now().Add(60 * time.Second);
\* s.cacheMu.Unlock(); return tools, nil
GetStore(p) ==
    /\ pc[p] = "get_store"
    /\ cacheExpiry' = [cacheExpiry EXCEPT ![loc[p].gServer] = Expiry(ExpiryFrom(now))]
    /\ expiryBy' = [expiryBy EXCEPT ![loc[p].gServer] = p]
    /\ cacheMu' = "free"
    /\ loc' = [loc EXCEPT ![p].got = loc[p].gFetched, ![p].gErr = FALSE,
                           ![p].gStoredAt = now, ![p].gBy = p]
    /\ pc' = [pc EXCEPT ![p] = loc[p].gRet]
    /\ UNCHANGED <<serverVars, toolsCache, toolsBy, now, catalog, procs, req,
                   resp, prev>>

\* ------------------------------------------------------------- environment

\* Time passes.
Tick ==
    /\ now + TickStep <= MaxTime
    /\ now' = now + TickStep
    /\ UNCHANGED <<serverVars, cacheVars, catalog, procs, pc, req, loc, resp, prev>>

\* What a backend may offer after it changed.
ChangedCatalogs == {<<"x">>, <<"x", "y">>}

\* A backend starts to offer other tools.
BackendChange(b) ==
    /\ \E c \in ChangedCatalogs \ {catalog[b]} : catalog' = [catalog EXCEPT ![b] = c]
    /\ UNCHANGED <<serverVars, cacheVars, now, procs, pc, req, loc, resp, prev>>

\* ------------------------------------------------------------ main: init

\* shouldSkip := serverCfg.Extensions != nil && serverCfg.Extensions.Disabled
ShouldSkip(name) == name \in cfgDisabled

\* The mutant of InitVisit: the client is put into the server's map at once.
InitVisitDirect(name) ==
    /\ initPc = "build"
    /\ name \in initTodo
    /\ initTodo' = initTodo \ {name}
    /\ \E ok \in BOOLEAN :
          /\ mcpClients' = IF ok THEN mcpClients \cup {name} ELSE mcpClients
          /\ tempMcpClients' = IF ok THEN tempMcpClients \cup {name} ELSE tempMcpClients
          /\ created' = [created EXCEPT ![name] = Append(@, ok)]
    /\ UNCHANGED <<splitMode, cfgDisabled, extensions, client, initMu, initPc, cacheVars, now, catalog, procs,
                   pc, req, loc, resp, prev>>

\* The mutant of InitVisit: a client that failed to start is kept as well.
InitVisitKeepsFailed(name) ==
    /\ initPc = "build"
    /\ name \in initTodo
    /\ initTodo' = initTodo \ {name}
    /\ IF ShouldSkip(name)
       THEN UNCHANGED <<tempMcpClients, created>>
       ELSE \E ok \in BOOLEAN :
               /\ tempMcpClients' = tempMcpClients \cup {name}
               /\ created' = [created EXCEPT ![name] = Append(@, ok)]
    /\ UNCHANGED <<splitMode, cfgDisabled, extensions, client, mcpClients, initMu, initPc, cacheVars,
                   now, catalog, procs, pc, req, loc, resp, prev>>

\* for name, serverCfg := range cfg.MCPServers: a disabled backend is passed
\* over; NewMCPClient fails and the backend is skipped, or
\* tempMcpClients[name] = client.
InitVisit(name) ==
    /\ initPc = "build"
    /\ name \in initTodo
    /\ initTodo' = initTodo \ {name}
    /\ IF ShouldSkip(name)
       THEN UNCHANGED <<tempMcpClients, created>>
       ELSE \E ok \in BOOLEAN :
               /\ tempMcpClients' =
                     IF ok THEN tempMcpClients \cup {name} ELSE tempMcpClients
               /\ created' = [created EXCEPT ![name] = Append(@, ok)]
    /\ UNCHANGED <<splitMode, cfgDisabled, extensions, client, mcpClients, initMu, initPc, cacheVars, now,
                   catalog, procs, pc, req, loc, resp, prev>>

\* server.initMu.Lock() is called: from now on no new reader gets in.
InitLockCall ==
    /\ initPc = "build"
    /\ initTodo = {}
    /\ initMu' = [initMu EXCEPT !.pending = TRUE]
    /\ initPc' = "lock"
    /\ UNCHANGED <<splitMode, cfgDisabled, extensions, client, created, mcpClients, initTodo, tempMcpClients, cacheVars,
                   now, catalog, procs, pc, req, loc, resp, prev>>

\* server.initMu.Lock() returns once the readers have left.
InitLockTaken ==
    /\ initPc = "lock"
    /\ initMu.readers = {}
    /\ initMu' = [initMu EXCEPT !.pending = FALSE, !.writer = TRUE]
    /\ initPc' = "install"
    /\ UNCHANGED <<splitMode, cfgDisabled, extensions, client, created, mcpClients, initTodo, tempMcpClients, cacheVars,
                   now, catalog, procs, pc, req, loc, resp, prev>>

\* server.mcpClients = tempMcpClients
InitInstall ==
    /\ initPc = "install"
    /\ mcpClients' = tempMcpClients
    /\ initPc' = "unlock"
    /\ UNCHANGED <<splitMode, cfgDisabled, extensions, client, created, initMu, initTodo, tempMcpClients, cacheVars, now,
                   catalog, procs, pc, req, loc, resp, prev>>

\* server.initMu.Unlock()
InitUnlock ==
    /\ initPc = "unlock"
    /\ initMu' = [initMu EXCEPT !.writer = FALSE]
    /\ initPc' = "done"
    /\ UNCHANGED <<splitMode, cfgDisabled, extensions, client, created, mcpClients, initTodo, tempMcpClients, cacheVars,
                   now, catalog, procs, pc, req, loc, resp, prev>>

\* --------------------------------------------------------------- requests

\* A POST of a valid tools/list envelope to the path /seg.
BaseReq(seg) ==
    [kind |-> "rpc", verb |-> "POST", seg |-> seg, body |-> "envelope",
     jsonrpc |-> "2.0", method |-> "tools/list", params |-> "object",
     hasName |-> FALSE, name |-> "", args |-> "absent", id |-> 1]

CallReq(seg, name) ==
    [BaseReq(seg) EXCEPT !.method = "tools/call", !.hasName = TRUE,
                         !.name = name, !.args = "object"]

\* The requests clients send to /seg.
RequestsTo(seg) ==
    {BaseReq(seg)}
    \cup {CallReq(seg, n) : n \in CallNames}
    \cup {[BaseReq(seg) EXCEPT !.method = "tools/call"]}
    \cup {[CallReq(seg, "x") EXCEPT !.args = a] : a \in {"absent", "text"}}
    \cup {[BaseReq(seg) EXCEPT !.method = m] :
            m \in {"initialize", "notifications/initialized", "bogus", ""}}
    \cup {[BaseReq(seg) EXCEPT !.params = "absent"],
          [BaseReq(seg) EXCEPT !.jsonrpc = "1.0"],
          [BaseReq(seg) EXCEPT !.body = "garbage"],
          [BaseReq(seg) EXCEPT !.verb = "GET"]}

\* First path segments clients use: of a split-mode server, of a flat one.
SplitSegs == BackendNames \cup {"", "nope"}
FlatSegs == {"mcp", "other"}

Requests == UNION {RequestsTo(seg) : seg \in IF splitMode THEN SplitSegs ELSE FlatSegs}

\* http.Error(w, text, status)
HttpError(status, text) ==
    [kind |-> "http", status |-> status, code |-> 0, message |-> text,
     data |-> "", id |-> 0, tools |-> {}, server |-> Absent]

\* writeJSONRPCError(w, code, message, data, id); id 0 stands for null.
RpcError(code, message, data, id) ==
    [kind |-> "error", status |-> 200, code |-> code, message |-> message,
     data |-> data, id |-> id, tools |-> {}, server |-> Absent]

\* The JSONRPCResponse of a success: of tools/list with its tools, of
\* tools/call with the backend that served it.
RpcResult(tools, server, id) ==
    [kind |-> "result", status |-> 200, code |-> 0, message |-> "",
     data |-> "", id |-> id, tools |-> tools, server |-> server]

\* The mutant of ParseError: the code of an invalid request.
ParseErrorAsInvalid == RpcError(-32600, "Parse error", "", 0)

\* writeJSONRPCError(w, -32700, "Parse error", nil, nil)
ParseError == RpcError(-32700, "Parse error", "", 0)

\* A panic in the handler: net/http recovers it and closes the connection.
Aborted ==
    [kind |-> "aborted", status |-> 0, code |-> 0, message |-> "",
     data |-> "", id |-> 0, tools |-> {}, server |-> Absent]

\* The mutant of ValidateJSONRPCRequest: the method is not looked at.
ValidateVersionOnly(r) ==
    IF r.jsonrpc # "2.0" THEN "invalid jsonrpc version" ELSE ""

\* validateJSONRPCRequest: "" when the request is valid.
ValidateJSONRPCRequest(r) ==
    IF r.jsonrpc # "2.0" THEN "invalid jsonrpc version"
    ELSE IF r.method = "" THEN "method is required"
    ELSE ""

\* validateJSONRPCRequest: if req.Params == nil { req.Params = make(map...) }
ValidatedParams(r) == IF r.params = "absent" THEN "object" ELSE r.params

\* The handler is done: the response is written and the deferred
\* initMu.RUnlock() has run.
Finish(p, r) ==
    /\ resp' = [resp EXCEPT ![p] = r]
    /\ pc' = [pc EXCEPT ![p] = "done"]
    /\ initMu' = [initMu EXCEPT !.readers = @ \ {p}]

\* The mutant of FinishErr: the error is written without the request id.
FinishErrNoId(p, err) == Finish(p, RpcError(-32603, "Internal error", err, 0))

\* if err != nil { writeJSONRPCError(w, -32603, "Internal error", err.Error(), req.ID) }
FinishErr(p, err) == Finish(p, RpcError(-32603, "Internal error", err, req[p].id))

\* The mutant of CtxTimeout: one context for all requests in flight.
CtxTimeoutShared(p) ==
    /\ pc[p] \notin {"idle", "process", "done"}
    /\ ~loc[p].ctxDone
    /\ loc' = [q \in AllProcs |->
                IF pc[q] \notin {"idle", "process", "done"}
                THEN [loc[q] EXCEPT !.ctxDone = TRUE] ELSE loc[q]]
    /\ UNCHANGED <<serverVars, cacheVars, now, catalog, procs, pc, req, resp, prev>>

\* The deadline of context.WithTimeout(r.Context(), defaultRequestTimeout)
\* passes while the request is handled: ctx.Done() is closed from now on.
CtxTimeout(p) ==
    /\ pc[p] \notin {"idle", "process", "done"}
    /\ ~loc[p].ctxDone
    /\ loc' = [loc EXCEPT ![p].ctxDone = TRUE]
    /\ UNCHANGED <<serverVars, cacheVars, now, catalog, procs, pc, req, resp, prev>>

\* case <-ctx.Done(): err = fmt.Errorf("request timeout after %v", ...)
SelectTimeout(p) == FinishErr(p, "request timeout")

\* The mutant of HandleJSONRPC: in flat mode a path other than /mcp and
\* /api/mcp is answered with 404.
HandleJSONRPCFlatPath(p, r) ==
    /\ pc[p] = "idle"
    /\ req' = [req EXCEPT ![p] = r]
    /\ IF splitMode
       THEN /\ loc' = [loc EXCEPT ![p].seen = IF r.seg = "" THEN @ ELSE mcpClients,
                                  ![p].mcpClient = r.seg]
            /\ IF r.seg = ""
               THEN /\ resp' = [resp EXCEPT ![p] =
                                  HttpError(400, "Server name is required in path")]
                    /\ pc' = [pc EXCEPT ![p] = "done"]
               ELSE IF r.seg \notin mcpClients
               THEN /\ resp' = [resp EXCEPT ![p] = HttpError(400, "Server not found")]
                    /\ pc' = [pc EXCEPT ![p] = "done"]
               ELSE /\ pc' = [pc EXCEPT ![p] = "process"]
                    /\ UNCHANGED resp
       ELSE IF r.seg \in {"mcp", "api/mcp"}
       THEN /\ pc' = [pc EXCEPT ![p] = "process"]
            /\ UNCHANGED <<loc, resp>>
       ELSE /\ resp' = [resp EXCEPT ![p] = HttpError(404, "Path not found")]
            /\ pc' = [pc EXCEPT ![p] = "done"]
            /\ UNCHANGED loc
    /\ UNCHANGED <<serverVars, cacheVars, now, catalog, procs, prev>>

\* The mutant of HandleJSONRPC: a name that is not registered is answered
\* with 404.
HandleJSONRPCNotFound(p, r) ==
    /\ pc[p] = "idle"
    /\ req' = [req EXCEPT ![p] = r]
    /\ IF splitMode
       THEN /\ loc' = [loc EXCEPT ![p].seen = IF r.seg = "" THEN @ ELSE mcpClients,
                                  ![p].mcpClient = r.seg]
            /\ IF r.seg = ""
               THEN /\ resp' = [resp EXCEPT ![p] =
                                  HttpError(400, "Server name is required in path")]
                    /\ pc' = [pc EXCEPT ![p] = "done"]
               ELSE IF r.seg \notin mcpClients
               THEN /\ resp' = [resp EXCEPT ![p] = HttpError(404, "Server not found")]
                    /\ pc' = [pc EXCEPT ![p] = "done"]
               ELSE /\ pc' = [pc EXCEPT ![p] = "process"]
                    /\ UNCHANGED resp
       ELSE /\ pc' = [pc EXCEPT ![p] = "process"]
            /\ UNCHANGED <<loc, resp>>
    /\ UNCHANGED <<serverVars, cacheVars, now, catalog, procs, prev>>

\* The mutant of HandleJSONRPC: in split mode the readiness test comes before
\* the lookup of the path segment.
HandleJSONRPCGateFirst(p, r) ==
    /\ pc[p] = "idle"
    /\ req' = [req EXCEPT ![p] = r]
    /\ IF splitMode
       THEN /\ loc' = [loc EXCEPT ![p].seen = IF r.seg = "" THEN @ ELSE mcpClients,
                                  ![p].mcpClient = r.seg]
            /\ IF mcpClients = {}
               THEN /\ resp' = [resp EXCEPT ![p] = HttpError(503, "Service not ready")]
                    /\ pc' = [pc EXCEPT ![p] = "done"]
               ELSE IF r.seg = ""
               THEN /\ resp' = [resp EXCEPT ![p] =
                                  HttpError(400, "Server name is required in path")]
                    /\ pc' = [pc EXCEPT ![p] = "done"]
               ELSE IF r.seg \notin mcpClients
               THEN /\ resp' = [resp EXCEPT ![p] = HttpError(400, "Server not found")]
                    /\ pc' = [pc EXCEPT ![p] = "done"]
               ELSE /\ pc' = [pc EXCEPT ![p] = "process"]
                    /\ UNCHANGED resp
       ELSE /\ pc' = [pc EXCEPT ![p] = "process"]
            /\ UNCHANGED <<loc, resp>>
    /\ UNCHANGED <<serverVars, cacheVars, now, catalog, procs, prev>>

\* A read of s.mcpClients by handler p at the named place of the code: the
\* record says whether p held s.initMu (read side) at that moment.
RegistryRead(p, site) ==
    loc[p].reads \cup {[site |-> site, held |-> p \in initMu.readers,
                        writing |-> initMu.writer]}

\* The same read made right after s.initMu.RLock() in the same step.
RegistryReadLocked(p, site) ==
    loc[p].reads \cup {[site |-> site, held |-> TRUE, writing |-> initMu.writer]}

\* handleJSONRPC: a request arrives; in split mode createSplitModeHandler
\* looks the first path segment up in s.mcpClients, holding no lock.
HandleJSONRPC(p, r) ==
    /\ pc[p] = "idle"
    /\ req' = [req EXCEPT ![p] = r]
    /\ IF splitMode
       THEN /\ loc' = [loc EXCEPT ![p].seen = IF r.seg = "" THEN @ ELSE mcpClients,
                                  ![p].reads = IF r.seg = "" THEN @
                                               ELSE RegistryRead(p, "createSplitModeHandler"),
                                  ![p].mcpClient = r.seg]
            /\ IF r.seg = ""
               THEN /\ resp' = [resp EXCEPT ![p] =
                                  HttpError(400, "Server name is required in path")]
                    /\ pc' = [pc EXCEPT ![p] = "done"]
               ELSE IF r.seg \notin mcpClients
               THEN /\ resp' = [resp EXCEPT ![p] = HttpError(400, "Server not found")]
                    /\ pc' = [pc EXCEPT ![p] = "done"]
               ELSE /\ pc' = [pc EXCEPT ![p] = "process"]
                    /\ UNCHANGED resp
       ELSE /\ pc' = [pc EXCEPT ![p] = "process"]
            /\ UNCHANGED <<loc, resp>>
    /\ UNCHANGED <<serverVars, cacheVars, now, catalog, procs, prev>>

\* processRequest has come to json.Unmarshal and it has succeeded: the
\* registry is not empty, the verb is POST, the body is an envelope.
Decoded(p) ==
    /\ mcpClients # {}
    /\ req[p].verb = "POST"
    /\ req[p].body # "garbage"

\* processRequest up to the method switch: s.initMu.RLock(), the readiness
\* test, the verb, the body, the envelope.
ProcessRequest(p) ==
    /\ pc[p] = "process"
    /\ ~initMu.writer
    /\ ~initMu.pending
    /\ loc' = [loc EXCEPT ![p].seen = mcpClients, ![p].reads = RegistryReadLocked(p, "processRequest"),
                          ![p].params = IF Decoded(p) /\ ValidateJSONRPCRequest(req[p]) = ""
                                        THEN ValidatedParams(req[p])
                                        ELSE @]
    /\ LET r == req[p]
           split == splitMode
       IN
       IF mcpClients = {} THEN Finish(p, HttpError(503, "Service not ready"))
       ELSE IF r.verb # "POST" THEN Finish(p, HttpError(405, "Method not allowed"))
       ELSE IF r.body = "garbage" THEN Finish(p, ParseError)
       ELSE IF ValidateJSONRPCRequest(r) # ""
       THEN Finish(p, RpcError(-32600, ValidateJSONRPCRequest(r), "", r.id))
       ELSE IF r.method \in {"initialize", "notifications/initialized"}
       THEN Finish(p, RpcResult({}, Absent, r.id))
       ELSE IF r.method = "tools/list"
       THEN /\ pc' = [pc EXCEPT ![p] = IF split THEN "split_list" ELSE "list_start"]
            /\ initMu' = [initMu EXCEPT !.readers = @ \cup {p}]
            /\ UNCHANGED resp
       ELSE IF r.method = "tools/call"
       THEN /\ pc' = [pc EXCEPT ![p] = IF split THEN "split_call" ELSE "call_start"]
            /\ initMu' = [initMu EXCEPT !.readers = @ \cup {p}]
            /\ UNCHANGED resp
       ELSE FinishErr(p, "method not found")
    /\ UNCHANGED <<splitMode, mcpClients, initPc, initTodo, tempMcpClients,
                   cfgDisabled, extensions, client, created, cacheVars, now, catalog, procs, req,
                   prev>>

\* The request was a flat-mode tools/list and its response is a result.
IsListResult(p) ==
    /\ ~splitMode
    /\ pc[p] = "done"
    /\ resp[p].kind = "result"
    /\ req[p].method = "tools/list"

\* The backends whose tools a request was given by getToolsWithCache.
ObtainedFrom(l) == {o.server : o \in {ob \in l.obtained : ob.ok}}

\* What is kept of a finished flat-mode tools/list.
ListSummary(l, r) == [tools |-> r.tools, from |-> ObtainedFrom(l)]

\* The client has its response; the goroutine serves the next request.
NextRequest(p) ==
    /\ pc[p] = "done"
    /\ pc' = [pc EXCEPT ![p] = "idle"]
    /\ req' = [req EXCEPT ![p] = NoReq]
    /\ loc' = [loc EXCEPT ![p] = NoLoc]
    /\ resp' = [resp EXCEPT ![p] = NoResp]
    /\ UNCHANGED <<serverVars, cacheVars, now, catalog, procs, prev>>

\* handleLiveness
HandleLiveness(p) ==
    /\ pc[p] = "idle"
    /\ resp' = [resp EXCEPT ![p] = HttpError(200, "Liveness OK")]
    /\ req' = [req EXCEPT ![p] = [kind |-> "liveness"]]
    /\ pc' = [pc EXCEPT ![p] = "done"]
    /\ UNCHANGED <<serverVars, cacheVars, now, catalog, procs, loc, prev>>

\* The mutant of HandleReadiness: ready once the goroutine has stored its map.
HandleReadinessInstalled(p) ==
    /\ pc[p] = "idle"
    /\ ~initMu.writer
    /\ ~initMu.pending
    /\ loc' = [loc EXCEPT ![p].seen = mcpClients, ![p].reads = RegistryReadLocked(p, "handleReadiness")]
    /\ resp' = [resp EXCEPT ![p] =
                  IF initPc = "done"
                  THEN HttpError(200, "Readiness OK")
                  ELSE HttpError(503, "Readiness NOT OK")]
    /\ req' = [req EXCEPT ![p] = [kind |-> "readiness"]]
    /\ pc' = [pc EXCEPT ![p] = "done"]
    /\ UNCHANGED <<serverVars, cacheVars, now, catalog, procs, prev>>

\* handleReadiness: under s.initMu.RLock(), ready := len(s.mcpClients) > 0
HandleReadiness(p) ==
    /\ pc[p] = "idle"
    /\ ~initMu.writer
    /\ ~initMu.pending
    /\ loc' = [loc EXCEPT ![p].seen = mcpClients, ![p].reads = RegistryReadLocked(p, "handleReadiness")]
    /\ resp' = [resp EXCEPT ![p] =
                  IF Cardinality(mcpClients) > 0
                  THEN HttpError(200, "Readiness OK")
                  ELSE HttpError(503, "Readiness NOT OK")]
    /\ req' = [req EXCEPT ![p] = [kind |-> "readiness"]]
    /\ pc' = [pc EXCEPT ![p] = "done"]
    /\ UNCHANGED <<serverVars, cacheVars, now, catalog, procs, prev>>

\* Values every handler step leaves alone.
fixedVars ==
    <<splitMode, mcpClients, initPc, initTodo, tempMcpClients, cfgDisabled, extensions, client,
      created, now, catalog, procs, prev>>

\* ------------------------------------------------------------ listAllTools

\* The mutant of InToolMap: any tool kept stands in the way of a new one.
InToolMapAny(toolMap, name) == toolMap # {}

\* if _, exists := toolMap[tool.Name]
InToolMap(toolMap, name) == \E t \in toolMap : t.name = name

InConflictLog(conflictLog, name) == \E c \in conflictLog : c.name = name

\* conflictLog[name] = append(conflictLog[name], serverName)
AppendConflict(conflictLog, name, serverName) ==
    {IF c.name = name THEN [c EXCEPT !.servers = Append(@, serverName)] ELSE c :
        c \in conflictLog}

\* The servers `for prevServerName := range s.mcpClients` visits before it
\* meets serverName and breaks, when the map is ranged over in this order.
BeforeBreak(order, serverName) ==
    LET at == CHOOSE n \in 1..Len(order) : order[n] = serverName
    IN  SubSeq(order, 1, at - 1)

\* What the request has been given for backend b by the cache.
Obtained(b, l) == [server |-> b, ok |-> ~l.gErr, tools |-> l.got]

\* listAllTools: the names of s.mcpClients, collected in map order, sorted.
ListStart(p) ==
    /\ pc[p] = "list_start"
    /\ IF loc[p].ctxDone
       THEN /\ SelectTimeout(p)
            /\ UNCHANGED loc
       ELSE /\ \E order \in RangeOrders(mcpClients) :
                  loc' = [loc EXCEPT ![p].serverNames = SortStrings(order),
                                     ![p].i = 1, ![p].toolMap = {},
                                     ![p].conflictLog = {},
                                     ![p].seen = mcpClients, ![p].reads = RegistryRead(p, "listAllTools")]
            /\ pc' = [pc EXCEPT ![p] = "list_loop"]
            /\ UNCHANGED <<initMu, resp>>
    /\ UNCHANGED <<fixedVars, cacheVars, req>>

\* for _, serverName := range serverNames: the next backend's tools are asked
\* of the cache; after the last one the tools of toolMap are the result.
ListLoop(p) ==
    /\ pc[p] = "list_loop"
    /\ LET l == loc[p] IN
       IF l.i > Len(l.serverNames)
       THEN /\ Finish(p, RpcResult(l.toolMap, Absent, req[p].id))
            /\ UNCHANGED loc
       ELSE /\ loc' = [loc EXCEPT ![p].gServer = l.serverNames[l.i],
                                  ![p].gRet = "list_got"]
            /\ pc' = [pc EXCEPT ![p] = "get_read"]
            /\ UNCHANGED <<initMu, resp>>
    /\ UNCHANGED <<fixedVars, cacheVars, req>>

\* The mutant of ListGot: an error of one backend ends the whole tools/list.
ListGotAborts(p) ==
    /\ pc[p] = "list_got"
    /\ LET l == loc[p] IN
       IF l.gErr
       THEN /\ loc' = [loc EXCEPT ![p].i = @ + 1,
                                  ![p].obtained = @ \cup {Obtained(l.gServer, l)}]
            /\ FinishErr(p, "failed to list tools")
       ELSE /\ loc' = [loc EXCEPT ![p].tools = l.got, ![p].j = 1,
                                  ![p].obtained = @ \cup {Obtained(l.gServer, l)}]
            /\ pc' = [pc EXCEPT ![p] = "list_tool"]
            /\ UNCHANGED <<initMu, resp>>
    /\ UNCHANGED <<fixedVars, cacheVars, req>>

\* getToolsWithCache has returned to the outer loop: on an error the backend
\* is skipped.
ListGot(p) ==
    /\ pc[p] = "list_got"
    /\ LET l == loc[p] IN
       IF l.gErr
       THEN /\ loc' = [loc EXCEPT ![p].i = @ + 1,
                                  ![p].obtained = @ \cup {Obtained(l.gServer, l)}]
            /\ pc' = [pc EXCEPT ![p] = "list_loop"]
       ELSE /\ loc' = [loc EXCEPT ![p].tools = l.got, ![p].j = 1,
                                  ![p].obtained = @ \cup {Obtained(l.gServer, l)}]
            /\ pc' = [pc EXCEPT ![p] = "list_tool"]
    /\ UNCHANGED <<fixedVars, cacheVars, initMu, req, resp>>

\* for _, tool := range tools: a new name is kept; a name toolMap has is a
\* conflict, and the first conflict of a name goes looking for the backend
\* the tool was kept from.
ListTool(p) ==
    /\ pc[p] = "list_tool"
    /\ LET l == loc[p]
           serverName == l.serverNames[l.i]
       IN
       IF l.j > Len(l.tools)
       THEN /\ loc' = [loc EXCEPT ![p].i = @ + 1]
            /\ pc' = [pc EXCEPT ![p] = "list_loop"]
       ELSE IF ~InToolMap(l.toolMap, l.tools[l.j].name)
       THEN /\ loc' = [loc EXCEPT ![p].toolMap = @ \cup {l.tools[l.j]},
                                  ![p].j = @ + 1]
            /\ UNCHANGED pc
       ELSE IF InConflictLog(l.conflictLog, l.tools[l.j].name)
       THEN /\ loc' = [loc EXCEPT ![p].conflictLog =
                          AppendConflict(@, l.tools[l.j].name, serverName),
                                  ![p].j = @ + 1]
            /\ UNCHANGED pc
       ELSE /\ \E order \in RangeOrders(mcpClients) :
                  loc' = [loc EXCEPT ![p].order = BeforeBreak(order, serverName),
                                     ![p].k = 1, ![p].firstServer = "unknown",
                                     ![p].seen = mcpClients, ![p].reads = RegistryRead(p, "listAllTools")]
            /\ pc' = [pc EXCEPT ![p] = "conf_loop"]
    /\ UNCHANGED <<fixedVars, cacheVars, initMu, req, resp>>

\* conflictLog[tool.Name] = []string{firstServer}, then the append of
\* serverName, and on to the next tool.
ConflictLogged(l) ==
    [l EXCEPT !.conflictLog =
                 @ \cup {[name |-> l.tools[l.j].name,
                          servers |-> <<l.firstServer, l.serverNames[l.i]>>]},
              !.j = @ + 1, !.order = <<>>, !.k = 0, !.firstServer = Absent]

\* for prevServerName := range s.mcpClients: the next one's tools are asked
\* of the cache; at serverName, or at the end, the loop is left.
ConfLoop(p) ==
    /\ pc[p] = "conf_loop"
    /\ LET l == loc[p] IN
       IF l.k > Len(l.order)
       THEN /\ loc' = [loc EXCEPT ![p] = ConflictLogged(l)]
            /\ pc' = [pc EXCEPT ![p] = "list_tool"]
       ELSE /\ loc' = [loc EXCEPT ![p].gServer = l.order[l.k],
                                  ![p].gRet = "conf_got"]
            /\ pc' = [pc EXCEPT ![p] = "get_read"]
    /\ UNCHANGED <<fixedVars, cacheVars, initMu, req, resp>>

\* getToolsWithCache has returned to the inner loop: a backend that has the
\* tool is firstServer.
ConfGot(p) ==
    /\ pc[p] = "conf_got"
    /\ LET l == loc[p] IN
       IF ~l.gErr /\ HasTool(l.got, l.tools[l.j].name)
       THEN /\ loc' = [loc EXCEPT ![p] =
                          ConflictLogged([l EXCEPT !.firstServer = l.order[l.k]])]
            /\ pc' = [pc EXCEPT ![p] = "list_tool"]
       ELSE /\ loc' = [loc EXCEPT ![p].k = @ + 1]
            /\ pc' = [pc EXCEPT ![p] = "conf_loop"]
    /\ UNCHANGED <<fixedVars, cacheVars, initMu, req, resp>>

\* ------------------------------------------------------------ callToolAuto

\* The mutant of CallStart: the name is not tested; the loop looks for "".
CallStartUnchecked(p) ==
    /\ pc[p] = "call_start"
    /\ IF loc[p].ctxDone
       THEN /\ SelectTimeout(p)
            /\ UNCHANGED loc
       ELSE /\ \E order \in RangeOrders(mcpClients) :
                  loc' = [loc EXCEPT ![p].serverNames = SortStrings(order),
                                     ![p].i = 1, ![p].foundServers = <<>>,
                                     ![p].seen = mcpClients, ![p].reads = RegistryRead(p, "callToolAuto")]
            /\ pc' = [pc EXCEPT ![p] = "call_loop"]
            /\ UNCHANGED <<initMu, resp>>
    /\ UNCHANGED <<fixedVars, cacheVars, req>>

\* callToolAuto: toolName, ok := params["name"].(string); the sorted names.
CallStart(p) ==
    /\ pc[p] = "call_start"
    /\ IF loc[p].ctxDone
       THEN /\ SelectTimeout(p)
            /\ UNCHANGED loc
       ELSE IF ~req[p].hasName
       THEN /\ FinishErr(p, "tool name is required")
            /\ UNCHANGED loc
       ELSE /\ \E order \in RangeOrders(mcpClients) :
                  loc' = [loc EXCEPT ![p].serverNames = SortStrings(order),
                                     ![p].i = 1, ![p].foundServers = <<>>,
                                     ![p].seen = mcpClients, ![p].reads = RegistryRead(p, "callToolAuto")]
            /\ pc' = [pc EXCEPT ![p] = "call_loop"]
            /\ UNCHANGED <<initMu, resp>>
    /\ UNCHANGED <<fixedVars, cacheVars, req>>

\* if len(foundServers) > 1 { s.logger.Warn("Tool name conflict detected
\* during call", ...) }, after the loop over the server names.
CallConflict(l, toolName) ==
    IF Len(l.foundServers) > 1
    THEN l.conflictLog \cup {[name |-> toolName, servers |-> l.foundServers]}
    ELSE l.conflictLog

\* The mutant of CallLoop: a tool no backend has goes to the first backend.
CallLoopDefault(p) ==
    /\ pc[p] = "call_loop"
    /\ LET l == loc[p] IN
       IF l.i > Len(l.serverNames)
       THEN /\ loc' = [loc EXCEPT ![p].gServer = l.serverNames[1]]
            /\ pc' = [pc EXCEPT ![p] = "call_invoke"]
       ELSE /\ loc' = [loc EXCEPT ![p].gServer = l.serverNames[l.i],
                                  ![p].gRet = "call_got"]
            /\ pc' = [pc EXCEPT ![p] = "get_read"]
    /\ UNCHANGED <<fixedVars, cacheVars, initMu, req, resp>>

\* for _, serverName := range serverNames: the next backend's tools are asked
\* of the cache; after the last one the tool is not found.
CallLoop(p) ==
    /\ pc[p] = "call_loop"
    /\ LET l == loc[p] IN
       IF l.i > Len(l.serverNames)
       THEN /\ FinishErr(p, "tool not found")
            /\ loc' = [loc EXCEPT ![p].conflictLog = CallConflict(l, req[p].name)]
       ELSE /\ loc' = [loc EXCEPT ![p].gServer = l.serverNames[l.i],
                                  ![p].gRet = "call_got"]
            /\ pc' = [pc EXCEPT ![p] = "get_read"]
            /\ UNCHANGED <<initMu, resp>>
    /\ UNCHANGED <<fixedVars, cacheVars, req>>

\* The mutant of CallGot: the search goes on after a match, so the last
\* backend that has the tool is the one called.
CallGotLast(p) ==
    /\ pc[p] = "call_got"
    /\ LET l == loc[p]
           more == \E n \in (l.i + 1)..Len(l.serverNames) :
                       HasTool(ClientListTools(l.serverNames[n]), req[p].name)
       IN
       IF ~l.gErr /\ HasTool(l.got, req[p].name) /\ ~more
       THEN /\ loc' = [loc EXCEPT ![p].foundServers = Append(@, l.gServer),
                                  ![p].obtained = @ \cup {Obtained(l.gServer, l)}]
            /\ pc' = [pc EXCEPT ![p] = "call_invoke"]
       ELSE /\ loc' = [loc EXCEPT ![p].i = @ + 1,
                                  ![p].obtained = @ \cup {Obtained(l.gServer, l)}]
            /\ pc' = [pc EXCEPT ![p] = "call_loop"]
    /\ UNCHANGED <<fixedVars, cacheVars, initMu, req, resp>>

\* getToolsWithCache has returned: on an error the backend is skipped; the
\* first backend whose tools have the name is the one to call.
CallGot(p) ==
    /\ pc[p] = "call_got"
    /\ LET l == loc[p] IN
       IF ~l.gErr /\ HasTool(l.got, req[p].name)
       THEN /\ loc' = [loc EXCEPT ![p].foundServers = Append(@, l.gServer),
                                  ![p].obtained = @ \cup {Obtained(l.gServer, l)}]
            /\ pc' = [pc EXCEPT ![p] = "call_invoke"]
       ELSE /\ loc' = [loc EXCEPT ![p].i = @ + 1,
                                  ![p].obtained = @ \cup {Obtained(l.gServer, l)}]
            /\ pc' = [pc EXCEPT ![p] = "call_loop"]
    /\ UNCHANGED <<fixedVars, cacheVars, initMu, req, resp>>

\* The mutant of CallInvoke: the call goes to the first client of the
\* registry in sorted order, whichever backend the loop found.
CallInvokeFirstClient(p) ==
    /\ pc[p] = "call_invoke"
    /\ LET b == CHOOSE c \in mcpClients :
                    \A d \in mcpClients \ {c} : StringLess(c, d)
       IN
       IF CallToolDenied(b, req[p].name)
       THEN /\ loc' = [loc EXCEPT ![p].denied = Append(@, b)]
            /\ FinishErr(p, "tool is not allowed")
       ELSE \E ok \in Outcomes(loc[p]) :
          /\ loc' = [loc EXCEPT ![p].invoked = Append(@, b),
                                ![p].late = Late(loc[p], b),
                                ![p].failed = Failed(@, ok, b),
                                ![p].sent = Arguments(req[p])]
          /\ IF ok
             THEN Finish(p, RpcResult({}, b, req[p].id))
             ELSE FinishErr(p, "failed to call tool")
    /\ UNCHANGED <<fixedVars, cacheVars, req>>

\* return client.CallTool(ctx, toolName, args): the backend answers, or the
\* call fails.
CallInvoke(p) ==
    /\ pc[p] = "call_invoke"
    /\ IF CallToolDenied(loc[p].gServer, req[p].name)
       THEN /\ loc' = [loc EXCEPT ![p].denied = Append(@, loc[p].gServer)]
            /\ FinishErr(p, "tool is not allowed")
       ELSE \E ok \in Outcomes(loc[p]) :
          /\ loc' = [loc EXCEPT ![p].invoked = Append(@, loc[p].gServer),
                                ![p].late = Late(loc[p], loc[p].gServer),
                                ![p].failed = Failed(@, ok, loc[p].gServer),
                                ![p].sent = Arguments(req[p])]
          /\ IF ok
             THEN Finish(p, RpcResult({}, loc[p].gServer, req[p].id))
             ELSE FinishErr(p, "failed to call tool")
    /\ UNCHANGED <<fixedVars, cacheVars, req>>

\* -------------------------------------------------------- SplitModeHandler

\* The mutant of SplitList: the tools come from the cache entry of the
\* backend while it is valid, and a successful ListTools stores them.
SplitListCached(p) ==
    /\ pc[p] = "split_list"
    /\ LET b == loc[p].mcpClient IN
       IF CacheValid(b)
       THEN /\ Finish(p, RpcResult(SeqToSet(toolsCache[b].tools), b, req[p].id))
            /\ UNCHANGED <<loc, cacheVars>>
       ELSE /\ Finish(p, RpcResult(SeqToSet(ClientListTools(b)), b, req[p].id))
            /\ loc' = [loc EXCEPT ![p].listed = @ \cup {b}]
            /\ toolsCache' = [toolsCache EXCEPT ![b] = Entry(ClientListTools(b))]
            /\ cacheExpiry' = [cacheExpiry EXCEPT ![b] = Expiry(ExpiryFrom(now))]
            /\ UNCHANGED <<cacheMu, toolsBy, expiryBy>>
    /\ UNCHANGED <<fixedVars, req>>

\* The mutant of SplitList: the tools ListTools returned are left in the
\* cache entry of the backend.
SplitListStores(p) ==
    /\ pc[p] = "split_list"
    /\ LET b == loc[p].mcpClient IN
       /\ Finish(p, RpcResult(SeqToSet(ClientListTools(b)), b, req[p].id))
       /\ loc' = [loc EXCEPT ![p].listed = @ \cup {b}]
       /\ toolsCache' = [toolsCache EXCEPT ![b] = Entry(ClientListTools(b))]
       /\ UNCHANGED <<cacheExpiry, cacheMu, toolsBy, expiryBy>>
    /\ UNCHANGED <<fixedVars, req>>

\* SplitModeHandler.handleToolsList: h.mcpClient.ListTools(ctx)
SplitList(p) ==
    /\ pc[p] = "split_list"
    /\ \E early \in Early(loc[p]) :
          IF early
          THEN /\ SelectTimeout(p)
               /\ UNCHANGED loc
          ELSE \E ok \in Outcomes(loc[p]) :
                  /\ loc' = [loc EXCEPT
                                ![p].listed = @ \cup {loc[p].mcpClient},
                                ![p].late = Late(loc[p], loc[p].mcpClient),
                                ![p].failed = Failed(@, ok, loc[p].mcpClient)]
                  /\ IF ok
                     THEN Finish(p, RpcResult(SeqToSet(ClientListTools(loc[p].mcpClient)),
                                              loc[p].mcpClient, req[p].id))
                     ELSE FinishErr(p, "failed to list tools")
    /\ UNCHANGED <<fixedVars, cacheVars, req>>

\* The mutant of SplitCall: the call goes, as in flat mode, to the first
\* backend in sorted order that has the tool.
SplitCallRouted(p) ==
    /\ pc[p] = "split_call"
    /\ IF ~req[p].hasName
       THEN /\ Finish(p, Aborted)
            /\ UNCHANGED loc
       ELSE LET has == {b \in mcpClients : HasTool(ClientListTools(b), req[p].name)}
                to == IF has = {} THEN loc[p].mcpClient
                      ELSE CHOOSE b \in has : \A c \in has \ {b} : StringLess(b, c)
            IN
            /\ loc' = [loc EXCEPT ![p].invoked = Append(@, to)]
            /\ \E ok \in BOOLEAN :
                  IF ok
                  THEN Finish(p, RpcResult({}, to, req[p].id))
                  ELSE FinishErr(p, "failed to call tool")
    /\ UNCHANGED <<fixedVars, cacheVars, req>>

\* SplitModeHandler.handleToolsCall: params["name"].(string) panics when the
\* name is no string; else h.mcpClient.CallTool.
SplitCall(p) ==
    /\ pc[p] = "split_call"
    /\ \E early \in Early(loc[p]) :
          IF early
          THEN /\ SelectTimeout(p)
               /\ UNCHANGED loc
          ELSE IF ~req[p].hasName
          THEN /\ Finish(p, Aborted)
               /\ UNCHANGED loc
          ELSE IF CallToolDenied(loc[p].mcpClient, req[p].name)
          THEN /\ loc' = [loc EXCEPT ![p].denied = Append(@, loc[p].mcpClient)]
               /\ FinishErr(p, "tool is not allowed")
          ELSE \E ok \in Outcomes(loc[p]) :
                  /\ loc' = [loc EXCEPT
                                ![p].invoked = Append(@, loc[p].mcpClient),
                                ![p].late = Late(loc[p], loc[p].mcpClient),
                                ![p].failed = Failed(@, ok, loc[p].mcpClient),
                                ![p].sent = Arguments(req[p])]
                  /\ IF ok
                     THEN Finish(p, RpcResult({}, loc[p].mcpClient, req[p].id))
                     ELSE FinishErr(p, "failed to call tool")
    /\ UNCHANGED <<fixedVars, cacheVars, req>>

\* ------------------------------------------------------------- the server

\* Backends the configuration file names, and what the backends may offer.
ConfigNames == BackendNames
Scenarios ==
    { [A |-> <<"x">>, B |-> <<"x", "y">>, a |-> <<"y">>],
      [A |-> <<"x">>, B |-> <<"x">>, a |-> <<"x">>],
      [A |-> <<"x">>, B |-> <<"y">>, a |-> <<>>] }

\* The catalogs of the backends of the server followed from its start: A
\* offers x, B offers x and y, a offers y.
ServerScenarios == {sc \in Scenarios : sc["a"] = <<"y">>}

\* main: NewServer(make(map[string]*MCPClient)), the server started, the
\* initialization goroutine about to run over the configured backends.
Init ==
    /\ splitMode \in BOOLEAN
    /\ mcpClients = {}
    /\ initMu = [readers |-> {}, writer |-> FALSE, pending |-> FALSE]
    /\ toolsCache = [b \in BackendNames |-> NoEntry]
    /\ cacheExpiry = [b \in BackendNames |-> NoExpiry]
    /\ cacheMu = "free"
    /\ initPc = "build"
    /\ initTodo = ConfigNames
    /\ tempMcpClients = {}
    /\ cfgDisabled = {}
    /\ extensions = [b \in BackendNames |-> NoExtensions]
    /\ client = NewClient
    /\ created = [b \in BackendNames |-> <<>>]
    /\ now = 0
    /\ catalog \in ServerScenarios
    /\ procs = {"h1"}
    /\ pc = [p \in AllProcs |-> "idle"]
    /\ req = [p \in AllProcs |-> NoReq]
    /\ loc = [p \in AllProcs |-> NoLoc]
    /\ resp = [p \in AllProcs |-> NoResp]
    /\ toolsBy = [b \in BackendNames |-> Absent]
    /\ expiryBy = [b \in BackendNames |-> Absent]
    /\ prev = [p \in AllProcs |-> NoPrev]

Next ==
    \/ \E name \in ConfigNames : InitVisit(name)
    \/ InitLockCall
    \/ InitLockTaken
    \/ InitInstall
    \/ InitUnlock
    \/ \E p \in procs, r \in Requests : HandleJSONRPC(p, r)
    \/ \E p \in procs : ProcessRequest(p)
    \/ \E p \in procs : NextRequest(p)
    \/ \E p \in procs : HandleLiveness(p)
    \/ \E p \in procs : HandleReadiness(p)
    \/ \E p \in procs : ListStart(p)
    \/ \E p \in procs : ListLoop(p)
    \/ \E p \in procs : ListGot(p)
    \/ \E p \in procs : ListTool(p)
    \/ \E p \in procs : ConfLoop(p)
    \/ \E p \in procs : ConfGot(p)
    \/ \E p \in procs : CallStart(p)
    \/ \E p \in procs : CallLoop(p)
    \/ \E p \in procs : CallGot(p)
    \/ \E p \in procs : CallInvoke(p)
    \/ \E p \in procs : SplitList(p)
    \/ \E p \in procs : SplitCall(p)
    \/ \E p \in procs : GetRead(p)
    \/ \E p \in procs : GetFetch(p)
    \/ \E p \in procs : GetLock(p)
    \/ \E p \in procs : GetStore(p)
    \/ Tick

Spec == Init /\ [][Next]_vars

\* ------------------------------------------------ the initialization pass

\* The server made, the goroutine about to run over a configuration in which
\* some of the backends are disabled.
InitBoot ==
    /\ splitMode = FALSE
    /\ mcpClients = {}
    /\ initMu = [readers |-> {}, writer |-> FALSE, pending |-> FALSE]
    /\ toolsCache = [b \in BackendNames |-> NoEntry]
    /\ cacheExpiry = [b \in BackendNames |-> NoExpiry]
    /\ cacheMu = "free"
    /\ initPc = "build"
    /\ initTodo = ConfigNames
    /\ tempMcpClients = {}
    /\ cfgDisabled \in SUBSET ConfigNames
    /\ extensions = [b \in BackendNames |-> NoExtensions]
    /\ client = NewClient
    /\ created = [b \in BackendNames |-> <<>>]
    /\ now = 0
    /\ catalog \in ServerScenarios
    /\ procs = {"h1"}
    /\ pc = [p \in AllProcs |-> "idle"]
    /\ req = [p \in AllProcs |-> NoReq]
    /\ loc = [p \in AllProcs |-> NoLoc]
    /\ resp = [p \in AllProcs |-> NoResp]
    /\ toolsBy = [b \in BackendNames |-> Absent]
    /\ expiryBy = [b \in BackendNames |-> Absent]
    /\ prev = [p \in AllProcs |-> NoPrev]

NextBoot ==
    \/ \E name \in ConfigNames : InitVisit(name)
    \/ InitLockCall
    \/ InitLockTaken
    \/ InitInstall
    \/ InitUnlock
    \/ \E p \in procs : HandleReadiness(p)
    \/ \E p \in procs : NextRequest(p)

SpecBoot == InitBoot /\ [][NextBoot]_vars

\* ------------------------------------------- a flat-mode server in service

\* Registries the initialization pass may have installed.
Registries == {{"A", "B", "a"}, {"B", "a"}}

\* tools/list and tools/call requests to /mcp.
FlatRequests ==
    {BaseReq("mcp")} \cup {CallReq("mcp", n) : n \in CallNames}
    \cup {[BaseReq("mcp") EXCEPT !.method = "tools/call"]}

\* The client of a flat-mode tools/list keeps the result it was given and
\* the connection serves its next request.
ClientKeeps(p) ==
    /\ IsListResult(p)
    /\ prev' = [prev EXCEPT ![p] = ListSummary(loc[p], resp[p])]
    /\ pc' = [pc EXCEPT ![p] = "idle"]
    /\ req' = [req EXCEPT ![p] = NoReq]
    /\ loc' = [loc EXCEPT ![p] = NoLoc]
    /\ resp' = [resp EXCEPT ![p] = NoResp]
    /\ UNCHANGED <<serverVars, cacheVars, now, catalog, procs>>

\* A flat-mode server whose initialization pass is over.
InitFlat ==
    /\ splitMode = FALSE
    /\ mcpClients \in Registries
    /\ initMu = [readers |-> {}, writer |-> FALSE, pending |-> FALSE]
    /\ toolsCache = [b \in BackendNames |-> NoEntry]
    /\ cacheExpiry = [b \in BackendNames |-> NoExpiry]
    /\ cacheMu = "free"
    /\ initPc = "done"
    /\ initTodo = {}
    /\ tempMcpClients = mcpClients
    /\ cfgDisabled = {}
    /\ extensions = [b \in BackendNames |-> NoExtensions]
    /\ client = NewClient
    /\ created = [b \in BackendNames |-> <<b \in mcpClients>>]
    /\ now = 0
    /\ catalog \in Scenarios
    /\ procs = {"h1"}
    /\ pc = [p \in AllProcs |-> "idle"]
    /\ req = [p \in AllProcs |-> NoReq]
    /\ loc = [p \in AllProcs |-> NoLoc]
    /\ resp = [p \in AllProcs |-> NoResp]
    /\ toolsBy = [b \in BackendNames |-> Absent]
    /\ expiryBy = [b \in BackendNames |-> Absent]
    /\ prev = [p \in AllProcs |-> NoPrev]

NextFlat ==
    \/ \E p \in procs, r \in FlatRequests : HandleJSONRPC(p, r)
    \/ \E p \in procs : ProcessRequest(p)
    \/ \E p \in procs : NextRequest(p)
    \/ \E p \in procs : ClientKeeps(p)
    \/ \E p \in procs : ListStart(p)
    \/ \E p \in procs : ListLoop(p)
    \/ \E p \in procs : ListGot(p)
    \/ \E p \in procs : ListTool(p)
    \/ \E p \in procs : ConfLoop(p)
    \/ \E p \in procs : ConfGot(p)
    \/ \E p \in procs : CallStart(p)
    \/ \E p \in procs : CallLoop(p)
    \/ \E p \in procs : CallGot(p)
    \/ \E p \in procs : CallInvoke(p)
    \/ \E p \in procs : GetRead(p)
    \/ \E p \in procs : GetFetch(p)
    \/ \E p \in procs : GetLock(p)
    \/ \E p \in procs : GetStore(p)
    \/ Tick

SpecFlat == InitFlat /\ [][NextFlat]_vars

\* ------------------------------------- a server in service, with timeouts

\* tools/list and tools/call requests to the paths of two backends.
TimedRequests ==
    UNION {{BaseReq(seg), [BaseReq(seg) EXCEPT !.method = "tools/call"]}
           \cup {CallReq(seg, n) : n \in CallNames} : seg \in {"A", "B"}}

\* A server of either mode whose initialization pass is over.
InitTimed ==
    /\ splitMode \in BOOLEAN
    /\ mcpClients = BackendNames
    /\ initMu = [readers |-> {}, writer |-> FALSE, pending |-> FALSE]
    /\ toolsCache = [b \in BackendNames |-> NoEntry]
    /\ cacheExpiry = [b \in BackendNames |-> NoExpiry]
    /\ cacheMu = "free"
    /\ initPc = "done"
    /\ initTodo = {}
    /\ tempMcpClients = mcpClients
    /\ cfgDisabled = {}
    /\ extensions = [b \in BackendNames |-> NoExtensions]
    /\ client = NewClient
    /\ created = [b \in BackendNames |-> <<TRUE>>]
    /\ now = 0
    /\ catalog \in ServerScenarios
    /\ procs = {"h1"}
    /\ pc = [p \in AllProcs |-> "idle"]
    /\ req = [p \in AllProcs |-> NoReq]
    /\ loc = [p \in AllProcs |-> NoLoc]
    /\ resp = [p \in AllProcs |-> NoResp]
    /\ toolsBy = [b \in BackendNames |-> Absent]
    /\ expiryBy = [b \in BackendNames |-> Absent]
    /\ prev = [p \in AllProcs |-> NoPrev]

NextTimed ==
    \/ \E p \in procs, r \in TimedRequests : HandleJSONRPC(p, r)
    \/ \E p \in procs : ProcessRequest(p)
    \/ \E p \in procs : NextRequest(p)
    \/ \E p \in procs : CtxTimeout(p)
    \/ \E p \in procs : ListStart(p)
    \/ \E p \in procs : ListLoop(p)
    \/ \E p \in procs : ListGot(p)
    \/ \E p \in procs : ListTool(p)
    \/ \E p \in procs : ConfLoop(p)
    \/ \E p \in procs : ConfGot(p)
    \/ \E p \in procs : CallStart(p)
    \/ \E p \in procs : CallLoop(p)
    \/ \E p \in procs : CallGot(p)
    \/ \E p \in procs : CallInvoke(p)
    \/ \E p \in procs : SplitList(p)
    \/ \E p \in procs : SplitCall(p)
    \/ \E p \in procs : GetRead(p)
    \/ \E p \in procs : GetFetch(p)
    \/ \E p \in procs : GetLock(p)
    \/ \E p \in procs : GetStore(p)
    \/ Tick

SpecTimed == InitTimed /\ [][NextTimed]_vars

\* Two requests in flight at a server of either mode, each under its own
\* deadline: a tools/list and a tools/call of a tool two backends offer.
PairProcs == {"h1", "h2"}

PairServers == {"A", "B"}

PairRequests == {BaseReq("A"), CallReq("A", "x")}

InitPair ==
    /\ splitMode \in BOOLEAN
    /\ mcpClients = PairServers
    /\ initMu = [readers |-> {}, writer |-> FALSE, pending |-> FALSE]
    /\ toolsCache = [b \in BackendNames |-> NoEntry]
    /\ cacheExpiry = [b \in BackendNames |-> NoExpiry]
    /\ cacheMu = "free"
    /\ initPc = "done"
    /\ initTodo = {}
    /\ tempMcpClients = mcpClients
    /\ cfgDisabled = {}
    /\ extensions = [b \in BackendNames |-> NoExtensions]
    /\ client = NewClient
    /\ created = [b \in BackendNames |-> <<b \in mcpClients>>]
    /\ now = 0
    /\ catalog \in ServerScenarios
    /\ procs = PairProcs
    /\ pc = [p \in AllProcs |-> "idle"]
    /\ req = [p \in AllProcs |-> NoReq]
    /\ loc = [p \in AllProcs |-> NoLoc]
    /\ resp = [p \in AllProcs |-> NoResp]
    /\ toolsBy = [b \in BackendNames |-> Absent]
    /\ expiryBy = [b \in BackendNames |-> Absent]
    /\ prev = [p \in AllProcs |-> NoPrev]

NextPair ==
    \/ \E p \in procs, r \in PairRequests : HandleJSONRPC(p, r)
    \/ \E p \in procs : ProcessRequest(p)
    \/ \E p \in procs : NextRequest(p)
    \/ \E p \in procs : CtxTimeout(p)
    \/ \E p \in procs : ListStart(p)
    \/ \E p \in procs : ListLoop(p)
    \/ \E p \in procs : ListGot(p)
    \/ \E p \in procs : ListTool(p)
    \/ \E p \in procs : ConfLoop(p)
    \/ \E p \in procs : ConfGot(p)
    \/ \E p \in procs : CallStart(p)
    \/ \E p \in procs : CallLoop(p)
    \/ \E p \in procs : CallGot(p)
    \/ \E p \in procs : CallInvoke(p)
    \/ \E p \in procs : SplitList(p)
    \/ \E p \in procs : SplitCall(p)
    \/ \E p \in procs : GetRead(p)
    \/ \E p \in procs : GetFetch(p)
    \/ \E p \in procs : GetLock(p)
    \/ \E p \in procs : GetStore(p)

SpecPair == InitPair /\ [][NextPair]_vars

\* -------------------------------------------- split-mode server in service

\* tools/list and tools/call requests to the paths of two backends.
SplitRequests ==
    UNION {{BaseReq(seg), CallReq(seg, "x")} : seg \in {"A", "B"}}

\* What is kept of a finished split-mode tools/list: its tools, the backends
\* whose ListTools it called, and when.
SplitSummary(l, r) == [tools |-> r.tools, from |-> l.listed, at |-> now]

\* The client of a split-mode tools/list keeps the result it was given and
\* the connection serves its next request.
SplitClientKeeps(p) ==
    /\ splitMode
    /\ pc[p] = "done"
    /\ req[p].method = "tools/list"
    /\ resp[p].kind = "result"
    /\ prev' = [prev EXCEPT ![p] = SplitSummary(loc[p], resp[p])]
    /\ pc' = [pc EXCEPT ![p] = "idle"]
    /\ req' = [req EXCEPT ![p] = NoReq]
    /\ loc' = [loc EXCEPT ![p] = NoLoc]
    /\ resp' = [resp EXCEPT ![p] = NoResp]
    /\ UNCHANGED <<serverVars, cacheVars, now, catalog, procs>>

\* A split-mode server whose initialization pass is over.
InitSplit ==
    /\ splitMode = TRUE
    /\ mcpClients = BackendNames
    /\ initMu = [readers |-> {}, writer |-> FALSE, pending |-> FALSE]
    /\ toolsCache = [b \in BackendNames |-> NoEntry]
    /\ cacheExpiry = [b \in BackendNames |-> NoExpiry]
    /\ cacheMu = "free"
    /\ initPc = "done"
    /\ initTodo = {}
    /\ tempMcpClients = mcpClients
    /\ cfgDisabled = {}
    /\ extensions = [b \in BackendNames |-> NoExtensions]
    /\ client = NewClient
    /\ created = [b \in BackendNames |-> <<TRUE>>]
    /\ now = 0
    /\ catalog \in Scenarios
    /\ procs = {"h1"}
    /\ pc = [p \in AllProcs |-> "idle"]
    /\ req = [p \in AllProcs |-> NoReq]
    /\ loc = [p \in AllProcs |-> NoLoc]
    /\ resp = [p \in AllProcs |-> NoResp]
    /\ toolsBy = [b \in BackendNames |-> Absent]
    /\ expiryBy = [b \in BackendNames |-> Absent]
    /\ prev = [p \in AllProcs |-> NoPrev]

NextSplit ==
    \/ \E p \in procs, r \in SplitRequests : HandleJSONRPC(p, r)
    \/ \E p \in procs : ProcessRequest(p)
    \/ \E p \in procs : NextRequest(p)
    \/ \E p \in procs : SplitClientKeeps(p)
    \/ \E p \in procs : SplitList(p)
    \/ \E p \in procs : SplitCall(p)
    \/ Tick

SpecSplit == InitSplit /\ [][NextSplit]_vars

\* ------------------------------------ a server whose backends have policies

\* The allow and deny lists a configuration may carry.
ToolLists == {<<>>, <<"x">>, <<"y">>, <<"x", "y">>}

\* _extensions of a backend: none, or tools.allow and tools.deny.
ExtensionsOf ==
    {NoExtensions}
    \cup {[ext |-> TRUE, allow |-> a, deny |-> d] : a \in ToolLists, d \in ToolLists}

PolicyServers == {"A", "B"}

\* tools/list and tools/call requests to the paths of the two backends.
PolicyRequests ==
    UNION {{BaseReq(seg)} \cup {CallReq(seg, n) : n \in CallNames} :
              seg \in PolicyServers}

\* A server of either mode whose initialization pass is over, each backend
\* with the extensions of its configuration.
InitPolicy ==
    /\ splitMode \in BOOLEAN
    /\ mcpClients = PolicyServers
    /\ initMu = [readers |-> {}, writer |-> FALSE, pending |-> FALSE]
    /\ toolsCache = [b \in BackendNames |-> NoEntry]
    /\ cacheExpiry = [b \in BackendNames |-> NoExpiry]
    /\ cacheMu = "free"
    /\ initPc = "done"
    /\ initTodo = {}
    /\ tempMcpClients = mcpClients
    /\ cfgDisabled = {}
    /\ \E ea \in ExtensionsOf, eb \in ExtensionsOf :
          extensions = [b \in BackendNames |->
                           IF b = "A" THEN ea
                           ELSE IF b = "B" THEN eb ELSE NoExtensions]
    /\ client = NewClient
    /\ created = [b \in BackendNames |-> <<b \in mcpClients>>]
    /\ now = 0
    /\ catalog \in ServerScenarios
    /\ procs = {"h1"}
    /\ pc = [p \in AllProcs |-> "idle"]
    /\ req = [p \in AllProcs |-> NoReq]
    /\ loc = [p \in AllProcs |-> NoLoc]
    /\ resp = [p \in AllProcs |-> NoResp]
    /\ toolsBy = [b \in BackendNames |-> Absent]
    /\ expiryBy = [b \in BackendNames |-> Absent]
    /\ prev = [p \in AllProcs |-> NoPrev]

NextPolicy ==
    \/ \E p \in procs, r \in PolicyRequests : HandleJSONRPC(p, r)
    \/ \E p \in procs : ProcessRequest(p)
    \/ \E p \in procs : NextRequest(p)
    \/ \E p \in procs : ListStart(p)
    \/ \E p \in procs : ListLoop(p)
    \/ \E p \in procs : ListGot(p)
    \/ \E p \in procs : ListTool(p)
    \/ \E p \in procs : ConfLoop(p)
    \/ \E p \in procs : ConfGot(p)
    \/ \E p \in procs : CallStart(p)
    \/ \E p \in procs : CallLoop(p)
    \/ \E p \in procs : CallGot(p)
    \/ \E p \in procs : CallInvoke(p)
    \/ \E p \in procs : SplitList(p)
    \/ \E p \in procs : SplitCall(p)
    \/ \E p \in procs : GetRead(p)
    \/ \E p \in procs : GetFetch(p)
    \/ \E p \in procs : GetLock(p)
    \/ \E p \in procs : GetStore(p)

SpecPolicy == InitPolicy /\ [][NextPolicy]_vars

\* ------------------------------------------------- callers of the cache get

\* Backends the callers ask for.
TestServers == {"A", "B"}
ConcServers == {"A"}


\* server.getToolsWithCache(ctx, "server1", mockClient), as the cache tests
\* call it, from one goroutine or from several.
TestCall(p, b) ==
    /\ pc[p] = "t_idle"
    /\ loc' = [loc EXCEPT ![p].gServer = b, ![p].gRet = "t_done"]
    /\ pc' = [pc EXCEPT ![p] = "get_read"]
    /\ UNCHANGED <<serverVars, cacheVars, now, catalog, procs, req, resp, prev>>

\* The caller has looked at what the get returned, and keeps it to compare
\* with its next call's.
TestReturn(p) ==
    /\ pc[p] = "t_done"
    /\ prev' = [prev EXCEPT ![p] = Summary(loc[p])]
    /\ loc' = [loc EXCEPT ![p] = NoLoc]
    /\ pc' = [pc EXCEPT ![p] = "t_idle"]
    /\ UNCHANGED <<serverVars, cacheVars, now, catalog, procs, req, resp>>

\* A goroutine of TestCacheConcurrency is done: results <- err.
TestSend(p) ==
    /\ pc[p] = "t_done"
    /\ loc' = [loc EXCEPT ![p] = NoLoc]
    /\ pc' = [pc EXCEPT ![p] = "t_idle"]
    /\ UNCHANGED <<serverVars, cacheVars, now, catalog, procs, req, resp, prev>>

\* NewServer(make(map[string]*MCPClient), false), and the callers P.
InitTest(P) ==
    /\ splitMode = FALSE
    /\ mcpClients = {}
    /\ initMu = [readers |-> {}, writer |-> FALSE, pending |-> FALSE]
    /\ toolsCache = [b \in BackendNames |-> NoEntry]
    /\ cacheExpiry = [b \in BackendNames |-> NoExpiry]
    /\ cacheMu = "free"
    /\ initPc = "none"
    /\ initTodo = {}
    /\ tempMcpClients = {}
    /\ cfgDisabled = {}
    /\ extensions = [b \in BackendNames |-> NoExtensions]
    /\ client = NewClient
    /\ created = [b \in BackendNames |-> <<>>]
    /\ now = 0
    /\ catalog \in [BackendNames -> {<<"x">>}]
    /\ procs = P
    /\ pc = [p \in AllProcs |-> "t_idle"]
    /\ req = [p \in AllProcs |-> NoReq]
    /\ loc = [p \in AllProcs |-> NoLoc]
    /\ resp = [p \in AllProcs |-> NoResp]
    /\ toolsBy = [b \in BackendNames |-> Absent]
    /\ expiryBy = [b \in BackendNames |-> Absent]
    /\ prev = [p \in AllProcs |-> NoPrev]

\* One caller, get after get, as TestGetToolsWithCache, TestCacheExpiry and
\* TestCacheErrorHandling call it.
InitCache == InitTest({"h1"})

NextCache ==
    \/ \E p \in procs, b \in TestServers : TestCall(p, b)
    \/ \E p \in procs : GetRead(p)
    \/ \E p \in procs : GetFetch(p)
    \/ \E p \in procs : GetLock(p)
    \/ \E p \in procs : GetStore(p)
    \/ \E p \in procs : TestReturn(p)
    \/ \E b \in TestServers : BackendChange(b)
    \/ Tick

SpecCache == InitCache /\ [][NextCache]_vars

\* Several callers at once, as TestCacheConcurrency's goroutines.
InitCacheConc == InitTest(AllProcs)

NextCacheConc ==
    \/ \E p \in procs, b \in ConcServers : TestCall(p, b)
    \/ \E p \in procs : GetRead(p)
    \/ \E p \in procs : GetFetch(p)
    \/ \E p \in procs : GetLock(p)
    \/ \E p \in procs : GetStore(p)
    \/ \E p \in procs : TestSend(p)
    \/ \E b \in ConcServers : BackendChange(b)
    \/ Tick

SpecCacheConc == InitCacheConc /\ [][NextCacheConc]_vars

\* ------------------------------------------------------ claims on the cache

\* C5: of two sequential gets for one backend, the second made while the
\* entry the first stored is not yet expired, only the first calls ListTools
\* (one call in total), and the second returns the tools the first stored.
C5_SecondGetFromCache ==
    \A p \in procs :
        ( /\ pc[p] = "t_done"
          /\ prev[p].server = loc[p].gServer
          /\ ~prev[p].err
          /\ ~prev[p].hit
          /\ loc[p].gReadAt < prev[p].storedAt + TTL )
        => /\ prev[p].calls + loc[p].gCalls = 1
           /\ ~loc[p].gErr
           /\ loc[p].got = prev[p].got

\* A second get inside the TTL window has returned, after the backend changed
\* what it offers and after time has passed.
C5_Witness ==
    /\ pc["h1"] = "t_done"
    /\ prev["h1"].server = "A"
    /\ loc["h1"].gServer = "A"
    /\ ~prev["h1"].err /\ ~prev["h1"].hit
    /\ prev["h1"].storedAt < now
    /\ loc["h1"].gReadAt = now
    /\ now < prev["h1"].storedAt + TTL
    /\ loc["h1"].got # ClientListTools("A")

\* C6: a get that finds the entry absent, or the time not before its expiry,
\* calls ListTools once; when that succeeds it returns the fetched tools,
\* and the entry is the fetched tools with expiry = time of storing + 60.
C6_MissFetchesAndStores ==
    \A p \in procs :
        LET l == loc[p]
            valid == l.gSeen.tools.exists /\ l.gSeen.expiry.exists
                     /\ l.gReadAt < l.gSeen.expiry.at
        IN  (pc[p] = "t_done" /\ ~valid)
            => /\ l.gCalls = 1
               /\ ~l.gErr =>
                    /\ l.got = l.gFetched
                    /\ toolsCache[l.gServer] = Entry(l.gFetched)
                    /\ cacheExpiry[l.gServer] = Expiry(l.gStoredAt + 60)

\* A get has replaced an entry at the very time it expired.
C6_Witness ==
    /\ pc["h1"] = "t_done"
    /\ loc["h1"].gSeen.tools.exists
    /\ loc["h1"].gSeen.expiry.at = loc["h1"].gReadAt
    /\ ~loc["h1"].gErr
    /\ loc["h1"].gStoredAt > loc["h1"].gReadAt
    /\ toolsCache[loc["h1"].gServer] # loc["h1"].gSeen.tools

\* C7: a get whose ListTools call fails returns the error and leaves the
\* backend's entry as it found it, absent or present; a successful get after
\* it stores an entry as usual.
C7_FailedGetKeepsEntry ==
    \A p \in procs :
        LET l == loc[p] IN
        /\ (pc[p] = "t_done" /\ l.gErr)
            => /\ l.gCalls = 1
               /\ l.got = <<>>
               /\ toolsCache[l.gServer] = l.gSeen.tools
               /\ cacheExpiry[l.gServer] = l.gSeen.expiry
        /\ ( /\ pc[p] = "t_done"
             /\ prev[p].err
             /\ prev[p].server = l.gServer
             /\ ~l.gErr
             /\ ~l.gHit )
            => /\ toolsCache[l.gServer] = Entry(l.gFetched)
               /\ cacheExpiry[l.gServer] = Expiry(l.gStoredAt + TTL)

\* A refresh of an expired entry has failed.
C7_Witness ==
    /\ pc["h1"] = "t_done"
    /\ loc["h1"].gErr
    /\ toolsCache[loc["h1"].gServer].exists
    /\ cacheExpiry[loc["h1"].gServer].at <= now

\* C8: whenever a reader can hold cacheMu, each backend has tools stored if
\* and only if it has an expiry stored, and both were written by the same
\* store.
C8_EntryWhole ==
    cacheMu = "free" =>
        \A b \in BackendNames :
            /\ toolsCache[b].exists = cacheExpiry[b].exists
            /\ toolsBy[b] = expiryBy[b]

\* One goroutine has overwritten the entry of another while a third waits
\* for the lock with a fetched result.
C8_Witness ==
    /\ cacheMu = "free"
    /\ toolsBy["A"] = "h2"
    /\ pc["h1"] = "t_done" /\ loc["h1"].gBy = "h1"
    /\ pc["h3"] = "get_lock"

\* C9: every caller that finds no valid entry issues its own ListTools
\* call; once all callers have returned from such gets without error, the
\* backend's entry is complete and holds what one of them fetched.
C9_NoSingleFlight ==
    /\ \A p \in procs :
           (pc[p] = "t_done" /\ ~loc[p].gHit) => loc[p].gCalls = 1
    /\ \A b \in BackendNames :
           (\A p \in procs : /\ pc[p] = "t_done"
                             /\ loc[p].gServer = b
                             /\ ~loc[p].gHit
                             /\ ~loc[p].gErr)
           => /\ cacheMu = "free"
              /\ toolsCache[b].exists
              /\ cacheExpiry[b].exists
              /\ \E q \in procs : toolsCache[b].tools = loc[q].gFetched

\* All callers missed at the same time, before any of them stored, and one
\* fetched other tools than another.
C9_Witness ==
    /\ \A p \in procs : /\ pc[p] = "t_done"
                        /\ loc[p].gServer = "A"
                        /\ ~loc[p].gHit
                        /\ ~loc[p].gErr
                        /\ loc[p].gReadAt = 0
    /\ loc["h1"].gFetched # loc["h2"].gFetched

\* ------------------------------------------- claims on the flat-mode server

\* The first of the backend names S in the order of sort.Strings.
First(S) == CHOOSE b \in S : \A c \in S \ {b} : StringLess(b, c)

\* The backends of S whose catalog has the tool n.
Offering(n, S) == {b \in S : n \in SeqToSet(catalog[b])}

\* The request was a flat-mode tools/call with a name and it was answered.
IsCallDone(p) ==
    /\ ~splitMode
    /\ pc[p] = "done"
    /\ resp[p].kind \in {"result", "error"}
    /\ req[p].method = "tools/call"
    /\ req[p].hasName

\* The backends a tools/call was given tools of, by the cache, that have n.
ObtainedWith(l, n) ==
    {o.server : o \in {ob \in l.obtained : ob.ok /\ HasTool(ob.tools, n)}}

\* C1, as the code has it: a finished flat-mode tools/list returns, for every
\* tool name, the definition of the first backend in sorted order among the
\* backends whose tools the call obtained (from the cache or by a successful
\* fetch) and that offer the name, and nothing of any other backend; two
\* tools/list calls on unchanged catalogs that obtained the tools of the same
\* backends return the same tools.
C1_FirstObtainedWins ==
    \A p \in procs :
        IsListResult(p) =>
            LET from == ObtainedFrom(loc[p]) IN
            /\ \A n \in ToolNames :
                  LET off == Offering(n, from) IN
                  /\ off # {} =>
                        [name |-> n, from |-> First(off)] \in resp[p].tools
                  /\ \A t \in resp[p].tools :
                        t.name = n => off # {} /\ t.from = First(off)
            /\ ("tools" \in DOMAIN prev[p] /\ prev[p].from = from) =>
                  prev[p].tools = resp[p].tools

\* C1's case: backend A's fetch failed in two tools/list calls in a row, B and
\* a both offer x, and both calls returned B's definition of x.
C1_Witness ==
    /\ IsListResult("h1")
    /\ "A" \in mcpClients
    /\ ObtainedFrom(loc["h1"]) = {"B", "a"}
    /\ Offering("x", mcpClients) = {"A", "B", "a"}
    /\ [name |-> "x", from |-> "B"] \in resp["h1"].tools
    /\ "tools" \in DOMAIN prev["h1"]
    /\ prev["h1"].from = {"B", "a"}
    /\ prev["h1"].tools = resp["h1"].tools

\* C1 as stated: for a name two or more backends of the registry offer, a
\* finished flat-mode tools/list returns the definition of the first of them
\* in sorted order, and it is the one the tools/list before returned.
C1_FirstOfferingWins ==
    \A p \in procs :
        IsListResult(p) =>
            \A n \in ToolNames :
                LET off == Offering(n, mcpClients) IN
                Cardinality(off) >= 2 =>
                    /\ [name |-> n, from |-> First(off)] \in resp[p].tools
                    /\ "tools" \in DOMAIN prev[p] =>
                          \A t \in prev[p].tools :
                              t.name = n => t \in resp[p].tools

\* The catalogs of the backends of the registry have no name in common.
Disjoint(S) ==
    \A b \in S, c \in S :
        b # c => SeqToSet(catalog[b]) \cap SeqToSet(catalog[c]) = {}

\* C2: when the backends of the registry offer pairwise disjoint names and
\* every catalog was obtained, a finished flat-mode tools/list returns
\* exactly the union of the backends' tools, no name twice, whatever the
\* order the registry was ranged over.
C2_DisjointUnion ==
    \A p \in procs :
        (/\ IsListResult(p)
         /\ Disjoint(mcpClients)
         /\ ObtainedFrom(loc[p]) = mcpClients) =>
            /\ resp[p].tools =
                  UNION {SeqToSet(ClientListTools(b)) : b \in mcpClients}
            /\ \A t \in resp[p].tools, u \in resp[p].tools :
                  t.name = u.name => t = u

\* C2's case: three backends, A with x, B with y, a with nothing, all
\* obtained, and the result has both tools.
C2_Witness ==
    /\ IsListResult("h1")
    /\ mcpClients = {"A", "B", "a"}
    /\ Disjoint(mcpClients)
    /\ ObtainedFrom(loc["h1"]) = mcpClients
    /\ resp["h1"].tools = {[name |-> "x", from |-> "A"], [name |-> "y", from |-> "B"]}

\* C3: an answered flat-mode tools/call for the name n has invoked at most one
\* backend; the one invoked is the first backend in sorted order whose tools,
\* as the cache gave them, contain n, every backend sorted before it having
\* been asked and having failed or not had n; with A offering x and B
\* offering x and y, both obtained, x goes to A and y goes to B.
C3_CallsFirstOffering ==
    \A p \in procs :
        IsCallDone(p) =>
            LET l == loc[p]
                n == req[p].name
                has == ObtainedWith(l, n)
            IN
            /\ Len(l.invoked) <= 1
            /\ has # {} => l.invoked = <<First(has)>>
            /\ l.invoked # <<>> =>
                  /\ l.invoked[1] \in has
                  /\ \A b \in mcpClients :
                        StringLess(b, l.invoked[1]) =>
                            \E o \in l.obtained :
                                /\ o.server = b
                                /\ ~o.ok \/ ~HasTool(o.tools, n)
            /\ (/\ catalog["A"] = <<"x">>
                /\ catalog["B"] = <<"x", "y">>
                /\ {"A", "B"} \subseteq mcpClients) =>
                  /\ (n = "x" /\ "A" \in ObtainedFrom(l)) => l.invoked = <<"A">>
                  /\ (n = "y" /\ "B" \in ObtainedFrom(l)) => l.invoked = <<"B">>

\* C3's case: A offers x, B offers x and y, a offers y; a call for y, A and B
\* obtained, was sent to B and to no other.
C3_Witness ==
    /\ IsCallDone("h1")
    /\ req["h1"].name = "y"
    /\ mcpClients = {"A", "B", "a"}
    /\ catalog["A"] = <<"x">>
    /\ catalog["B"] = <<"x", "y">>
    /\ catalog["a"] = <<"y">>
    /\ ObtainedFrom(loc["h1"]) = {"A", "B"}
    /\ loc["h1"].invoked = <<"B">>
    /\ resp["h1"].server = "B"

\* C4: an answered flat-mode tools/call for a name that none of the backends
\* whose tools were obtained offers is answered with the error "tool not
\* found", and no backend was invoked.
C4_ToolNotFound ==
    \A p \in procs :
        (IsCallDone(p) /\ ObtainedWith(loc[p], req[p].name) = {}) =>
            /\ resp[p].kind = "error"
            /\ resp[p].code = -32603
            /\ resp[p].data = "tool not found"
            /\ loc[p].invoked = <<>>

\* C4's case: x is offered by A and B, both fetches failed, a has no x, and
\* the call for x ended with "tool not found".
C4_Witness ==
    /\ IsCallDone("h1")
    /\ req["h1"].name = "x"
    /\ Offering("x", mcpClients) = {"A", "B"}
    /\ ObtainedFrom(loc["h1"]) = {"a"}
    /\ resp["h1"].data = "tool not found"
    /\ loc["h1"].invoked = <<>>

\* ------------------------------------------ claims on the initialization

\* C10: whatever a request handler or a probe has read of s.mcpClients is the
\* empty map the server was made with, or the whole map the initialization
\* goroutine built, read after it was installed.
C10_SnapshotWhole ==
    \A p \in procs :
        \/ loc[p].seen = {}
        \/ /\ initPc \in {"unlock", "done"}
           /\ loc[p].seen = tempMcpClients
           /\ loc[p].seen = mcpClients

\* C10's case: requests were served while the goroutine was at work, one of
\* the three backends failed to start, and the readiness probe read the two
\* that were installed.
C10_Witness ==
    /\ initPc = "done"
    /\ req["h1"].kind = "readiness"
    /\ Cardinality(loc["h1"].seen) = 2
    /\ loc["h1"].seen = tempMcpClients

\* ------------------------------------------------- claims on the requests

\* The handler has answered a request to the JSON-RPC endpoint.
IsRpcDone(p) == pc[p] = "done" /\ req[p].kind = "rpc"

\* The request has got to no backend and to no cache entry: no
\* getToolsWithCache was entered, no ListTools and no CallTool was called.
Untouched(l) ==
    /\ l.gServer = Absent
    /\ l.obtained = {}
    /\ l.invoked = <<>>
    /\ l.listed = {}

\* The initialization goroutine has not stored its map yet.
NotInstalled == initPc \notin {"unlock", "done"}

\* The request is a POST of a well-formed envelope of version 2.0 with a
\* method.
WellFormed(r) ==
    /\ r.verb = "POST"
    /\ r.body = "envelope"
    /\ r.jsonrpc = "2.0"
    /\ r.method # ""

\* C11, as the code has it: a request answered before the registry is
\* installed has reached no backend and is answered 503 in flat mode, whatever
\* its path, and 400 in split mode, where the path segment is looked up in
\* the empty registry before the readiness test; 503 is the answer exactly
\* to a flat-mode request that read an empty registry; a flat-mode tools/list
\* that read an installed registry with a backend in it has a result, also
\* when configured backends are missing from it.
C11_GateByMode ==
    \A p \in procs :
        IsRpcDone(p) =>
            LET l == loc[p]
                r == resp[p]
            IN
            /\ NotInstalled => l.seen = {}
            /\ (r.status = 503) <=> (~splitMode /\ l.seen = {})
            /\ l.seen = {} =>
                  /\ r.kind = "http"
                  /\ r.status = IF splitMode THEN 400 ELSE 503
                  /\ Untouched(l)
            /\ (/\ ~splitMode
                /\ l.seen # {}
                /\ WellFormed(req[p])
                /\ req[p].method = "tools/list") => r.kind = "result"

\* C11's case: the split-mode server has no registry yet, a tools/list is sent
\* to /A, and the answer is 400, no backend reached.
C11_Witness ==
    /\ splitMode
    /\ NotInstalled
    /\ IsRpcDone("h1")
    /\ req["h1"].seg = "A"
    /\ WellFormed(req["h1"])
    /\ resp["h1"].status = 400
    /\ Untouched(loc["h1"])

\* C11 as stated: every request answered before the registry is installed,
\* in either mode, is answered 503 and has reached no backend.
C11_AlwaysUnavailable ==
    \A p \in procs :
        (IsRpcDone(p) /\ NotInstalled) =>
            /\ resp[p].status = 503
            /\ Untouched(loc[p])

\* C12: an answered liveness probe has status 200, whatever the state of the
\* registry and of its lock; an answered readiness probe has status 200 if
\* the map it read under RLock has a backend in it and 503 if it has none.
C12_Probes ==
    \A p \in procs :
        pc[p] = "done" =>
            /\ req[p].kind = "liveness" =>
                  resp[p].kind = "http" /\ resp[p].status = 200
            /\ req[p].kind = "readiness" =>
                  /\ resp[p].kind = "http"
                  /\ resp[p].status = IF loc[p].seen # {} THEN 200 ELSE 503

\* C12's case: every backend failed to start, the empty map is installed, and
\* the readiness probe that read it answers 503.
C12_Witness ==
    /\ initPc = "done"
    /\ mcpClients = {}
    /\ pc["h1"] = "done"
    /\ req["h1"].kind = "readiness"
    /\ loc["h1"].seen = {}
    /\ resp["h1"].status = 503

\* ------------------------------------------ claims on the initialization

IsListDone(p) ==
    /\ ~splitMode
    /\ IsRpcDone(p)
    /\ WellFormed(req[p])
    /\ req[p].method = "tools/list"
    /\ loc[p].seen # {}

\* The backends whose getToolsWithCache gave the request an error.
FailedFor(l) == {o.server : o \in {ob \in l.obtained : ~ob.ok}}

\* C14: a flat-mode tools/list in which the fetch of some backends failed is
\* answered with a result all the same; the result has no tool of a failed
\* backend and has every name the other backends offer; the failed backend
\* stays in the registry, and every tools/list, the next one too, asks every
\* backend of the registry.
C14_FailedFetchSkipped ==
    \A p \in procs :
        IsListDone(p) =>
            LET l == loc[p]
                tools == resp[p].tools
            IN
            /\ resp[p].kind = "result"
            /\ {o.server : o \in l.obtained} = mcpClients
            /\ mcpClients = tempMcpClients
            /\ \A b \in FailedFor(l) :
                  /\ b \in mcpClients
                  /\ \A t \in tools : t.from # b
            /\ \A t \in tools : t.from \in ObtainedFrom(l)
            /\ \A b \in ObtainedFrom(l) :
                  \A n \in SeqToSet(catalog[b]) : \E t \in tools : t.name = n

\* C14's case: in the tools/list before this one the fetch of A failed and x
\* was B's; this tools/list asked A again, was answered, and x is A's.
C14_Witness ==
    /\ IsListDone("h1")
    /\ "tools" \in DOMAIN prev["h1"]
    /\ mcpClients = {"A", "B", "a"}
    /\ prev["h1"].from = {"B", "a"}
    /\ [name |-> "x", from |-> "B"] \in prev["h1"].tools
    /\ ObtainedFrom(loc["h1"]) = mcpClients
    /\ [name |-> "x", from |-> "A"] \in resp["h1"].tools

\* ------------------------------------------ claims on the split-mode server

\* C15: whatever a split-mode request to /B has come to, the only backend
\* whose ListTools or CallTool was called for it is B, the cache was not
\* asked, and a result it has is B's: its tools are B's tools, its call was
\* served by B.
C15_OnlyPathBackend ==
    \A p \in procs :
        (splitMode /\ req[p].kind = "rpc") =>
            LET l == loc[p]
                B == req[p].seg
            IN
            /\ l.listed \subseteq {B}
            /\ \A k \in 1..Len(l.invoked) : l.invoked[k] = B
            /\ Len(l.invoked) <= 1
            /\ l.gServer = Absent
            /\ l.obtained = {}
            /\ (pc[p] = "done" /\ resp[p].kind = "result") =>
                  /\ \A t \in resp[p].tools : t.from = B
                  /\ resp[p].server \in {B, Absent}

\* C15's case: A and B are registered, both offer x, A is first in sorted
\* order; the tools/call for x sent to /B was served by B alone.
C15_Witness ==
    /\ splitMode
    /\ IsRpcDone("h1")
    /\ {"A", "B"} \subseteq mcpClients
    /\ HasTool(ClientListTools("A"), "x")
    /\ req["h1"].seg = "B"
    /\ req["h1"].method = "tools/call"
    /\ req["h1"].name = "x"
    /\ loc["h1"].invoked = <<"B">>
    /\ resp["h1"].server = "B"

\* C16: a split-mode request whose path has no first segment, or whose first
\* segment is not, letter for letter, a name of the registry read at its
\* lookup, the empty registry too, is answered with the plain status 400 and
\* has reached no backend; and 400 is the answer to no other split-mode
\* request.
C16_BadPathRejected ==
    \A p \in procs :
        (splitMode /\ IsRpcDone(p)) =>
            LET l == loc[p]
                r == resp[p]
            IN
            /\ (req[p].seg = "" \/ req[p].seg \notin l.seen) =>
                  /\ r.kind = "http"
                  /\ r.status = 400
                  /\ r.message = IF req[p].seg = ""
                                 THEN "Server name is required in path"
                                 ELSE "Server not found"
                  /\ Untouched(l)
            /\ r.status = 400 => (req[p].seg = "" \/ req[p].seg \notin l.seen)

\* C16's case: A and B are installed, a failed to start; a request to /a,
\* which differs from A in case only, is answered 400.
C16_Witness ==
    /\ splitMode
    /\ initPc = "done"
    /\ mcpClients = {"A", "B"}
    /\ IsRpcDone("h1")
    /\ req["h1"].seg = "a"
    /\ loc["h1"].seen = {"A", "B"}
    /\ resp["h1"].kind = "http"
    /\ resp["h1"].status = 400

\* C17, as the code has it: a flat-mode request is dispatched whatever its
\* path; none is answered 404 or 400, and a well-formed tools/list or
\* tools/call that read a registry with a backend in it is answered with a
\* JSON-RPC envelope, the tools/list with a result.
C17_AnyPathDispatched ==
    \A p \in procs :
        (~splitMode /\ IsRpcDone(p)) =>
            /\ resp[p].status \notin {400, 404}
            /\ (loc[p].seen # {} /\ WellFormed(req[p])) =>
                  /\ resp[p].kind \in {"result", "error"}
                  /\ req[p].method = "tools/list" => resp[p].kind = "result"

\* C17's case: a tools/call for x sent to /other of a flat-mode server went
\* through the cache to backend A, which served it.
C17_Witness ==
    /\ ~splitMode
    /\ IsRpcDone("h1")
    /\ req["h1"].seg = "other"
    /\ req["h1"].method = "tools/call"
    /\ req["h1"].name = "x"
    /\ loc["h1"].obtained # {}
    /\ loc["h1"].invoked = <<"A">>
    /\ resp["h1"].kind = "result"

\* C17 as stated: a flat-mode request that read a registry with a backend in
\* it and whose path is neither /mcp nor /api/mcp is answered 404 and has
\* reached neither the cache nor a backend.
C17_OtherPathNotFound ==
    \A p \in procs :
        (/\ ~splitMode
         /\ IsRpcDone(p)
         /\ loc[p].seen # {}
         /\ req[p].seg \notin {"mcp", "api/mcp"}) =>
            /\ resp[p].status = 404
            /\ Untouched(loc[p])

\* ------------------------------------------------ claims on the envelope

\* The handler has answered a POST that got to the reading of its body: the
\* registry it read has a backend and, in split mode, the one of its path.
ReachedBody(p) ==
    /\ IsRpcDone(p)
    /\ req[p].verb = "POST"
    /\ loc[p].seen # {}
    /\ splitMode => req[p].seg \in loc[p].seen

\* C18: a decoded envelope whose version is not "2.0" or whose method is empty
\* is answered with the error -32600 carrying the id of the request, no
\* backend and no cache having been reached; every other decoded envelope
\* passes, and from then on its params are an object, also when it had none:
\* a tools/list without params is served like one with empty params.
C18_EnvelopeValidated ==
    \A p \in procs :
        (ReachedBody(p) /\ req[p].body = "envelope") =>
            LET l == loc[p]
                r == resp[p]
            IN
            IF req[p].jsonrpc # "2.0" \/ req[p].method = ""
            THEN /\ r.kind = "error"
                 /\ r.code = -32600
                 /\ r.id = req[p].id
                 /\ l.params = Absent
                 /\ Untouched(l)
            ELSE /\ r.kind \in {"result", "error", "aborted"}
                 /\ r.code # -32600
                 /\ l.params = "object"
                 /\ (~splitMode /\ req[p].method = "tools/list") =>
                       r.kind = "result"

\* C18's case: a flat-mode tools/list without params passed the validation
\* and has its result.
C18_Witness ==
    /\ ~splitMode
    /\ ReachedBody("h1")
    /\ WellFormed(req["h1"])
    /\ req["h1"].method = "tools/list"
    /\ req["h1"].params = "absent"
    /\ loc["h1"].params = "object"
    /\ resp["h1"].kind = "result"
    /\ resp["h1"].tools # {}

\* C19, as the code has it: a POST whose body is no envelope, read by a
\* handler that found a backend in the registry, is answered with the error
\* -32700 and a null id, in flat mode whatever its path, in split mode when
\* its first path segment is a registered backend; no backend and no cache is
\* reached.
C19_ParseError ==
    \A p \in procs :
        (ReachedBody(p) /\ req[p].body = "garbage") =>
            /\ resp[p].kind = "error"
            /\ resp[p].code = -32700
            /\ resp[p].id = 0
            /\ resp[p].status = 200
            /\ Untouched(loc[p])

\* C19's case: a split-mode server with B registered is sent a body that is
\* no envelope at /B and answers -32700 with a null id.
C19_Witness ==
    /\ splitMode
    /\ ReachedBody("h1")
    /\ req["h1"].seg = "B"
    /\ req["h1"].body = "garbage"
    /\ resp["h1"].code = -32700
    /\ resp["h1"].id = 0

\* C19 as stated: a POST whose body is no envelope, read when the registry
\* has a backend, is answered with the error -32700 and a null id whatever
\* the path and the mode.
C19_ParseErrorAnyPath ==
    \A p \in procs :
        (/\ IsRpcDone(p)
         /\ req[p].verb = "POST"
         /\ req[p].body = "garbage"
         /\ loc[p].seen # {}) =>
            /\ resp[p].kind = "error"
            /\ resp[p].code = -32700
            /\ resp[p].id = 0

\* The methods processRequest has a case for.
MethodTable == {"initialize", "notifications/initialized", "tools/list", "tools/call"}

\* C20 as stated: a well-formed envelope whose method is none of the four of
\* the table is answered, in either mode, with an error that carries the id
\* of the request and whose code is not that of an internal error, no backend
\* and no cache having been reached.
C20_MethodNotFoundClass ==
    \A p \in procs :
        (/\ ReachedBody(p)
         /\ WellFormed(req[p])
         /\ req[p].method \notin MethodTable) =>
            /\ resp[p].kind = "error"
            /\ resp[p].id = req[p].id
            /\ resp[p].code # -32603
            /\ Untouched(loc[p])

\* The request has ended and a backend call of it returned the error of the
\* context, whose deadline had passed.
TimedOut(p) ==
    /\ IsRpcDone(p)
    /\ req[p].method \in {"tools/list", "tools/call"}
    /\ loc[p].late # <<>>

NoDuplicates(q) == \A i, j \in 1..Len(q) : q[i] = q[j] => i = j

\* C21, as the code has it: a split-mode tools/list or tools/call and a
\* flat-mode tools/call whose backend call ran into the request timeout end
\* with the internal error that carries the request id, never with a result;
\* in split mode that call is the only backend call of the request, and a
\* flat-mode tools/call asks no backend twice and calls no tool after a
\* CallTool that timed out.  A flat-mode tools/list whose fetch timed out
\* still ends with a result.
C21_TimeoutByMode ==
    \A p \in procs :
        TimedOut(p) =>
            /\ (splitMode \/ req[p].method = "tools/call") =>
                   /\ resp[p].kind = "error"
                   /\ resp[p].code = -32603
                   /\ resp[p].id = req[p].id
                   /\ NoDuplicates(loc[p].late)
                   /\ Len(loc[p].invoked) <= 1
            /\ splitMode =>
                   /\ Len(loc[p].late) = 1
                   /\ Len(loc[p].invoked) + Cardinality(loc[p].listed) = 1
            /\ (~splitMode /\ req[p].method = "tools/list") =>
                   resp[p].kind = "result"

\* A flat-mode tools/list has ended with the tools of one backend after the
\* fetches of two others returned the error of the expired context.
C21_Witness ==
    \E p \in procs :
        /\ TimedOut(p)
        /\ ~splitMode
        /\ req[p].method = "tools/list"
        /\ Len(loc[p].late) >= 2
        /\ resp[p].kind = "result"
        /\ resp[p].tools # {}

\* C21 as stated: in either mode a tools/list or tools/call whose backend
\* call ran into the request timeout ends with an error and that call is the
\* last backend call of the request.
C21_TimeoutIsError ==
    \A p \in procs :
        TimedOut(p) =>
            /\ resp[p].kind = "error"
            /\ Len(loc[p].late) = 1

\* C22: a request whose split-mode ListTools or whose CallTool (of either
\* mode) returned an error ends with the error -32603 "Internal error" whose
\* data is the cause and whose id is that of the request, never with a
\* result, and the failed call is the only call of that kind the request
\* issued.
C22_FailedCallIsInternalError ==
    \A p \in procs :
        (IsRpcDone(p) /\ loc[p].failed # <<>>) =>
            /\ resp[p].kind = "error"
            /\ resp[p].code = -32603
            /\ resp[p].message = "Internal error"
            /\ resp[p].id = req[p].id
            /\ Len(loc[p].failed) = 1
            /\ IF req[p].method = "tools/list"
               THEN /\ resp[p].data = "failed to list tools"
                    /\ loc[p].listed = {loc[p].failed[1]}
                    /\ loc[p].invoked = <<>>
               ELSE /\ resp[p].data = "failed to call tool"
                    /\ loc[p].invoked = loc[p].failed
                    /\ loc[p].listed = {}

\* A flat-mode tools/call has ended after the CallTool of the backend it
\* chose returned an error.
C22_Witness ==
    \E p \in procs :
        /\ IsRpcDone(p)
        /\ ~splitMode
        /\ loc[p].failed # <<>>
        /\ req[p].method = "tools/call"
        /\ resp[p].data = "failed to call tool"

\* C23 as stated: a request whose envelope passed validateJSONRPCRequest ends
\* with one JSON-RPC envelope, a result or an error, that carries the id of
\* the request, whatever its params; a split-mode tools/call without a string
\* name is no exception.
C23_AlwaysEnvelope ==
    \A p \in procs :
        (ReachedBody(p) /\ WellFormed(req[p])) =>
            /\ resp[p].kind \in {"result", "error"}
            /\ resp[p].id = req[p].id

\* ------------------------------------------ claims on requests in flight

\* The step is one of the handler p.
StepOf(p) == pc'[p] # pc[p] \/ loc'[p] # loc[p]

\* The answer of q is the one its own calls give it: no call of q returned
\* the error of a context, every catalog it obtained is the backend's, an
\* error is that of a call of its own that failed or of a tool none of the
\* catalogs it obtained has, and a result is the catalog of its backend, the
\* first definitions among the catalogs it obtained, or the backend it called.
OwnResult(q) ==
    LET l == loc[q]
        from == ObtainedFrom(l)
    IN
    /\ l.late = <<>>
    /\ resp[q].kind \in {"result", "error"}
    /\ resp[q].id = req[q].id
    /\ \A o \in l.obtained : o.ok => o.tools = ClientListTools(o.server)
    /\ resp[q].kind = "error" =>
          \/ l.failed # <<>>
          \/ /\ ~splitMode
             /\ req[q].method = "tools/call"
             /\ ObtainedWith(l, req[q].name) = {}
    /\ (resp[q].kind = "result" /\ req[q].method = "tools/list") =>
          IF splitMode
          THEN resp[q].tools = SeqToSet(ClientListTools(req[q].seg))
          ELSE resp[q].tools =
                  {[name |-> n, from |-> First(Offering(n, from))] :
                      n \in {m \in ToolNames : Offering(m, from) # {}}}
    /\ (resp[q].kind = "result" /\ req[q].method = "tools/call") =>
          /\ l.failed = <<>>
          /\ resp[q].server =
                IF splitMode THEN req[q].seg
                ELSE First(ObtainedWith(l, req[q].name))

\* C24: the step in which the deadline of a request p passes, the step in
\* which a backend call of p returns the error of the expired context, and
\* every later step of p leave the registry mapping, every cache entry and
\* the other handlers as they are; and a request whose own deadline has not
\* passed ends, whatever happened to the others, with the answer its own
\* calls give it; a handler that is done holds neither cacheMu nor initMu.
C24_TimeoutFrame ==
    /\ [][\A p \in procs :
            (\/ loc'[p].ctxDone /\ ~loc[p].ctxDone
             \/ loc'[p].late # loc[p].late
             \/ loc[p].late # <<>> /\ StepOf(p)) =>
                /\ UNCHANGED <<mcpClients, toolsCache, cacheExpiry>>
                /\ \A q \in procs \ {p} :
                      /\ pc'[q] = pc[q]
                      /\ loc'[q] = loc[q]
                      /\ req'[q] = req[q]
                      /\ resp'[q] = resp[q]]_vars
    /\ [](\A q \in procs :
            /\ (IsRpcDone(q) /\ ~loc[q].ctxDone) => OwnResult(q)
            /\ pc[q] = "done" => (cacheMu # q /\ q \notin initMu.readers))

\* A flat-mode tools/list of h1 found the entry of A that h2 had stored, then
\* its fetch of B timed out; h2's tools/list ended with the tools of both
\* backends, and both cache entries are the ones h2 stored.
C24_Witness ==
    /\ ~splitMode
    /\ IsRpcDone("h1") /\ IsRpcDone("h2")
    /\ loc["h1"].late = <<"B">>
    /\ "A" \in ObtainedFrom(loc["h1"])
    /\ toolsBy["A"] = "h2"
    /\ req["h2"].method = "tools/list"
    /\ ~loc["h2"].ctxDone
    /\ ObtainedFrom(loc["h2"]) = {"A", "B"}
    /\ resp["h2"].kind = "result"
    /\ toolsBy["B"] = "h2"

\* C25: a flat-mode tools/call whose params have no string name is answered
\* with the error "tool name is required" and the request id, and the request
\* entered no getToolsWithCache and called no ListTools and no CallTool.
C25_NameRequired ==
    \A p \in procs :
        (/\ ~splitMode
         /\ ReachedBody(p)
         /\ WellFormed(req[p])
         /\ req[p].method = "tools/call"
         /\ ~req[p].hasName) =>
            /\ resp[p].kind = "error"
            /\ resp[p].code = -32603
            /\ resp[p].data = "tool name is required"
            /\ resp[p].id = req[p].id
            /\ Untouched(loc[p])

\* A flat-mode tools/call without a name was answered by a server whose
\* registry holds backends.
C25_Witness ==
    \E p \in procs :
        /\ ~splitMode
        /\ ReachedBody(p)
        /\ WellFormed(req[p])
        /\ req[p].method = "tools/call"
        /\ ~req[p].hasName
        /\ mcpClients # {}
        /\ resp[p].data = "tool name is required"

\* C26: a tools/call with a name whose arguments field is missing or is not
\* an object is treated, in both modes, as the call would be without regard
\* to the field: split mode calls the backend of the path, flat mode the
\* first backend whose obtained catalog has the tool; the backend is called
\* with an empty argument set, and an error is that of the failed CallTool
\* or, in flat mode, of a tool that was not found.
C26_EmptyArguments ==
    \A p \in procs :
        (/\ ReachedBody(p)
         /\ WellFormed(req[p])
         /\ req[p].method = "tools/call"
         /\ req[p].hasName
         /\ req[p].args # "object") =>
            LET l == loc[p]
                has == ObtainedWith(l, req[p].name)
            IN
            /\ l.invoked =
                  IF splitMode THEN <<req[p].seg>>
                  ELSE IF has # {} THEN <<First(has)>> ELSE <<>>
            /\ l.invoked # <<>> => l.sent = "empty"
            /\ resp[p].kind \in {"result", "error"}
            /\ resp[p].kind = "error" =>
                  \/ l.failed # <<>> /\ resp[p].data = "failed to call tool"
                  \/ l.invoked = <<>> /\ resp[p].data = "tool not found"

\* A tools/call whose arguments field is a string has ended with the result
\* of the backend, which was called with an empty argument set.
C26_Witness ==
    \E p \in procs :
        /\ IsRpcDone(p)
        /\ req[p].method = "tools/call"
        /\ req[p].args = "text"
        /\ resp[p].kind = "result"
        /\ loc[p].sent = "empty"

\* C27 as stated: a flat-mode tools/call that was forwarded, for a name more
\* than one backend of the registry has in its obtained catalog or offers,
\* went to the first of them in sorted order, and a conflict for that name
\* was logged for the request.
C27_CallConflictLogged ==
    \A p \in procs :
        (/\ IsCallDone(p)
         /\ loc[p].invoked # <<>>
         /\ Cardinality(Offering(req[p].name, loc[p].seen)) > 1) =>
            /\ loc[p].invoked = <<First(ObtainedWith(loc[p], req[p].name))>>
            /\ \E c \in loc[p].conflictLog : c.name = req[p].name

\* C28 as stated: every conflict a flat-mode tools/list has logged names, as
\* the backend the tool was kept from, the backend whose definition of the
\* tool is in toolMap, whatever the order the registry map was ranged over.
C28_KeptFromLogged ==
    \A p \in procs :
        (~splitMode /\ req[p].kind = "rpc" /\ req[p].method = "tools/list") =>
            \A c \in loc[p].conflictLog :
                \E t \in loc[p].toolMap :
                    t.name = c.name /\ t.from = c.servers[1]

\* ------------------------------------------ claims on the split-mode server

\* C29, as the code has it: a split-mode tools/list that ended with a result
\* called ListTools of the backend of its path in that very request, entered
\* no getToolsWithCache, returned the backend's catalog, and left every cache
\* entry absent; so does a second one for the same backend within the TTL.
C29_SplitListDirect ==
    \A p \in procs :
        (/\ splitMode
         /\ IsRpcDone(p)
         /\ req[p].method = "tools/list"
         /\ resp[p].kind = "result") =>
            /\ loc[p].listed = {req[p].seg}
            /\ loc[p].gServer = Absent
            /\ resp[p].tools = SeqToSet(ClientListTools(req[p].seg))
            /\ \A b \in BackendNames :
                  ~toolsCache[b].exists /\ ~cacheExpiry[b].exists

\* Two split-mode tools/list requests for A, the second answered less than
\* the TTL after the first, and ListTools of A was called in the second.
C29_Witness ==
    \E p \in procs :
        /\ splitMode
        /\ IsRpcDone(p)
        /\ req[p].method = "tools/list"
        /\ req[p].seg = "A"
        /\ resp[p].kind = "result"
        /\ "at" \in DOMAIN prev[p]
        /\ prev[p].from = {"A"}
        /\ now < prev[p].at + TTL
        /\ loc[p].listed = {"A"}

\* C29 as stated: a split-mode tools/list for the backend of the previous
\* one, answered less than the TTL after it, is answered without a ListTools
\* call to that backend.
C29_SecondFromCache ==
    \A p \in procs :
        (/\ splitMode
         /\ IsRpcDone(p)
         /\ req[p].method = "tools/list"
         /\ resp[p].kind = "result"
         /\ "at" \in DOMAIN prev[p]
         /\ prev[p].from = {req[p].seg}
         /\ now < prev[p].at + TTL) =>
            loc[p].listed = {}

\* C30: a cache entry exists only in flat mode and only as a handler of a
\* request stored it, so the cache is empty when the server starts, in both
\* modes; in split mode every entry stays absent, cacheMu is never held and
\* no handler enters getToolsWithCache.
C30_CacheFlatOnly ==
    /\ \A b \in BackendNames :
          (toolsCache[b].exists \/ cacheExpiry[b].exists) =>
              /\ ~splitMode
              /\ toolsBy[b] \in procs
    /\ splitMode =>
          /\ cacheMu = "free"
          /\ \A p \in procs : loc[p].gServer = Absent /\ ~loc[p].gHit

\* A split-mode server has answered a tools/call whose CallTool reached the
\* backend of the path, and has no cache entry.
C30_Witness ==
    \E p \in procs :
        /\ splitMode
        /\ IsRpcDone(p)
        /\ req[p].method = "tools/call"
        /\ resp[p].kind = "result"
        /\ loc[p].invoked # <<>>
        /\ \A b \in BackendNames : ~toolsCache[b].exists

\* ------------------------------------------------ claims on the tool policy

\* The split-mode request has been handled by the backend of its path.
IsSplitDone(p) ==
    /\ splitMode
    /\ IsRpcDone(p)
    /\ req[p].seg \in mcpClients
    /\ resp[p].kind \in {"result", "error"}

C32_DenyFirst ==
    \A p \in procs :
        IsSplitDone(p) =>
            LET ext == extensions[req[p].seg] IN
            /\ (/\ req[p].method = "tools/call"
                /\ ext.ext
                /\ InList(ext.deny, req[p].name)) =>
                   /\ loc[p].denied # <<>>
                   /\ loc[p].invoked = <<>>
            /\ (req[p].method = "tools/list" /\ ext.ext) =>
                  \A t \in resp[p].tools : ~InList(ext.deny, t.name)

\* C33: a tools/call never reaches a backend whose lists exclude the tool:
\* every backend whose underlying CallTool was called allows the tool, and a
\* split-mode tools/call for a tool the backend of the path excludes ends,
\* with no call and no arguments sent, with the error "tool is not allowed"
\* that carries the request id.
C33_DeniedNotInvoked ==
    \A p \in procs :
        (IsRpcDone(p) /\ req[p].method = "tools/call" /\ req[p].hasName) =>
            /\ \A n \in 1..Len(loc[p].invoked) :
                  IsToolAllowed(extensions[loc[p].invoked[n]], req[p].name)
            /\ (/\ IsSplitDone(p)
                /\ ~IsToolAllowed(extensions[req[p].seg], req[p].name)) =>
                   /\ loc[p].invoked = <<>>
                   /\ loc[p].sent = Absent
                   /\ loc[p].failed = <<>>
                   /\ resp[p].kind = "error"
                   /\ resp[p].code = -32603
                   /\ resp[p].data = "tool is not allowed"
                   /\ resp[p].id = req[p].id

\* A split-mode tools/call for y, which B offers and its deny list has, has
\* ended with the refusal.
C33_Witness ==
    \E p \in procs :
        /\ IsSplitDone(p)
        /\ req[p].method = "tools/call"
        /\ req[p].seg = "B"
        /\ req[p].name = "y"
        /\ InList(extensions["B"].deny, "y")
        /\ loc[p].denied = <<"B">>
        /\ loc[p].invoked = <<>>
        /\ resp[p].data = "tool is not allowed"

\* The backends of S that offer the tool n and whose lists let it pass.
OfferingAllowed(n, S) ==
    {b \in Offering(n, S) : IsToolAllowed(extensions[b], n)}

\* C36: every catalog a flat-mode request obtained holds only tools the
\* backend's lists let pass, and a flat-mode tools/call is never refused by
\* the backend it was routed to; with A and B both obtained, a tool that A
\* offers but excludes and B offers and allows is listed from B and a
\* tools/call for it goes to B.
C36_FlatSeesAllowedOnly ==
    \A p \in procs :
        (~splitMode /\ req[p].kind = "rpc") =>
            /\ \A o \in loc[p].obtained :
                  \A n \in 1..Len(o.tools) :
                      IsToolAllowed(extensions[o.server], o.tools[n].name)
            /\ loc[p].denied = <<>>
            /\ pc[p] = "done" => resp[p].data # "tool is not allowed"
            /\ \A n \in ToolNames :
                  (/\ pc[p] = "done"
                   /\ OfferingAllowed(n, mcpClients) = {"B"}
                   /\ "A" \in Offering(n, mcpClients)) =>
                      /\ (/\ req[p].method = "tools/list"
                          /\ ObtainedFrom(loc[p]) = mcpClients) =>
                             \A t \in resp[p].tools : t.name = n => t.from = "B"
                      /\ (/\ req[p].method = "tools/list"
                          /\ ObtainedFrom(loc[p]) = mcpClients) =>
                             \E t \in resp[p].tools : t.name = n
                      /\ (/\ req[p].method = "tools/call"
                          /\ req[p].name = n
                          /\ ObtainedFrom(loc[p]) = mcpClients) =>
                             loc[p].invoked = <<"B">>

\* A flat-mode tools/call for x, which A offers and denies and B offers and
\* allows, got the catalogs of both backends and was answered by B.
C36_Witness ==
    \E p \in procs :
        /\ ~splitMode
        /\ IsRpcDone(p)
        /\ req[p].method = "tools/call"
        /\ req[p].name = "x"
        /\ InList(extensions["A"].deny, "x")
        /\ OfferingAllowed("x", mcpClients) = {"B"}
        /\ ObtainedFrom(loc[p]) = mcpClients
        /\ loc[p].invoked = <<"B">>
        /\ resp[p].kind = "result"
        /\ resp[p].server = "B"

\* ---------------------------------------------------------------------
\* claims on the locks
\* ---------------------------------------------------------------------

\* The reads of s.mcpClients that handler p made for its current request.
RegistryReads(p) == loc[p].reads

\* C34: every read of s.mcpClients made while handling a request is made
\* while the handler holds s.initMu for reading, so that none can coincide
\* with the goroutine's write of the map under s.initMu.Lock().
C34_ReadsUnderLock ==
    \A p \in procs : \A r \in RegistryReads(p) : r.held /\ ~r.writing

\* ---------------------------------------------------------------------
\* claims on listing and routing together
\* ---------------------------------------------------------------------

\* The flat-mode tools/call of p came after a tools/list on the same
\* connection that obtained the tools of every backend of the registry, and
\* every getToolsWithCache of the call was answered.
CallAfterFullList(p) ==
    /\ IsCallDone(p)
    /\ "tools" \in DOMAIN prev[p]
    /\ prev[p].from = mcpClients
    /\ \A o \in loc[p].obtained : o.ok

\* C35: in flat mode, on an unchanged registry and unchanged catalogs with
\* every fetch answered, a tools/call for a name the tools/list returned is
\* sent to the backend whose definition the tools/list returned, and to no
\* other; and a tools/call that was sent to a backend was for a name the
\* tools/list returned, as the definition of that backend.
C35_ListAndCallAgree ==
    \A p \in procs :
        CallAfterFullList(p) =>
            LET n == req[p].name
                l == loc[p]
            IN
            /\ \A t \in prev[p].tools : t.name = n => l.invoked = <<t.from>>
            /\ l.invoked # <<>> =>
                  [name |-> n, from |-> l.invoked[1]] \in prev[p].tools
            /\ (\A t \in prev[p].tools : t.name # n) =>
                  /\ l.invoked = <<>>
                  /\ resp[p].kind = "error"

\* C35's case: A offers x, B offers x and y, a offers y; the tools/list gave
\* y as B's, and the tools/call for y that followed went to B.
C35_Witness ==
    /\ CallAfterFullList("h1")
    /\ mcpClients = {"A", "B", "a"}
    /\ catalog["A"] = <<"x">>
    /\ catalog["B"] = <<"x", "y">>
    /\ catalog["a"] = <<"y">>
    /\ req["h1"].name = "y"
    /\ [name |-> "y", from |-> "B"] \in prev["h1"].tools
    /\ loc["h1"].invoked = <<"B">>

\* ---------------------------------------------------------------------
\* handleJSONRPC with the explicit RLock/RUnlock calls (src/server.go)
\* ---------------------------------------------------------------------

\* fatal("sync: RUnlock of unlocked RWMutex"): the runtime has ended the
\* process.
Fatal == \E p \in AllProcs : pc[p] = "fatal"

\* The handler has called RLock() more often than RUnlock().
HoldsRLock(l) == l.rlocks > l.runlocks

\* The reader holds that are left once p's RUnlock() has decremented the
\* reader count: its own is gone, or, when it has none, another reader's.
RUnlockLeaves(p) ==
    IF p \in initMu.readers
    THEN {initMu.readers \ {p}}
    ELSE {initMu.readers \ {q} : q \in initMu.readers}

\* s.initMu.RUnlock() by p, then the handler goes on at `to` with response r:
\* with a reader count of zero the runtime ends the process.
RUnlockThen(p, l, to, r) ==
    IF initMu.readers = {}
    THEN /\ pc' = [pc EXCEPT ![p] = "fatal"]
         /\ loc' = [loc EXCEPT ![p] = [l EXCEPT !.runlocks = @ + 1,
                                                !.unheld = @ + 1]]
         /\ UNCHANGED <<initMu, resp>>
    ELSE \E left \in RUnlockLeaves(p) :
         /\ initMu' = [initMu EXCEPT !.readers = left]
         /\ loc' = [loc EXCEPT ![p] =
                      [l EXCEPT !.runlocks = @ + 1,
                                !.unheld = IF HoldsRLock(l) THEN @ ELSE @ + 1]]
         /\ pc' = [pc EXCEPT ![p] = to]
         /\ resp' = [resp EXCEPT ![p] = r]

\* handleJSONRPC, line 57: s.initMu.RLock()
ServeRLock(p, r) ==
    /\ ~Fatal
    /\ pc[p] = "idle"
    /\ ~initMu.writer
    /\ ~initMu.pending
    /\ req' = [req EXCEPT ![p] = r]
    /\ initMu' = [initMu EXCEPT !.readers = @ \cup {p}]
    /\ loc' = [loc EXCEPT ![p].rlocks = @ + 1]
    /\ pc' = [pc EXCEPT ![p] = "gate"]
    /\ UNCHANGED <<splitMode, mcpClients, initPc, initTodo, tempMcpClients,
                   cfgDisabled, extensions, client, created, cacheVars, now,
                   catalog, procs, resp, prev>>

\* lines 58-63: len(s.mcpClients) == 0 answers 503; on both branches
\* s.initMu.RUnlock()
ServeGate(p) ==
    /\ ~Fatal
    /\ pc[p] = "gate"
    /\ LET l == [loc[p] EXCEPT !.seen = mcpClients,
                               !.reads = RegistryRead(p, "handleJSONRPC")]
       IN
       IF mcpClients = {}
       THEN RUnlockThen(p, l, "done", HttpError(503, "Service not ready"))
       ELSE RUnlockThen(p, l, "path", NoResp)
    /\ UNCHANGED <<fixedVars, cacheVars, req>>

\* lines 65-82: the first path segment; with none, s.initMu.RUnlock() and
\* 400; else the lookup in s.mcpClients, s.initMu.RUnlock(), and 404 for an
\* unknown name
ServePath(p) ==
    /\ ~Fatal
    /\ pc[p] = "path"
    /\ LET seg == req[p].seg
           l == [loc[p] EXCEPT !.seen = mcpClients,
                               !.mcpClient = seg,
                               !.reads = RegistryRead(p, "handleJSONRPC")]
       IN
       IF seg = ""
       THEN RUnlockThen(p, loc[p], "done",
                        HttpError(400, "Server name is required in path"))
       ELSE IF seg \notin mcpClients
       THEN RUnlockThen(p, l, "done", HttpError(404, "Server not found"))
       ELSE RUnlockThen(p, l, "body", NoResp)
    /\ UNCHANGED <<fixedVars, cacheVars, req>>

\* lines 84-175: the verb, the body, the envelope, the method switch and the
\* response; no lock is touched
ServeBody(p) ==
    /\ ~Fatal
    /\ pc[p] = "body"
    /\ pc' = [pc EXCEPT ![p] = "done"]
    /\ LET r == req[p]
           b == loc[p].mcpClient
       IN
       IF r.verb # "POST"
       THEN resp' = [resp EXCEPT ![p] = HttpError(405, "Method not allowed")]
       ELSE IF r.body = "garbage"
       THEN resp' = [resp EXCEPT ![p] = ParseError]
       ELSE IF ValidateJSONRPCRequest(r) # ""
       THEN resp' = [resp EXCEPT ![p] =
                       RpcError(-32600, ValidateJSONRPCRequest(r), "", r.id)]
       ELSE IF r.method \in {"initialize", "notifications/initialized"}
       THEN resp' = [resp EXCEPT ![p] = RpcResult({}, Absent, r.id)]
       ELSE IF r.method = "tools/list"
       THEN \E ok \in BOOLEAN :
              resp' = [resp EXCEPT ![p] =
                         IF ok
                         THEN RpcResult(SeqToSet(ToolsOf(b, catalog[b])), b, r.id)
                         ELSE RpcError(-32603, "Internal error",
                                       "failed to list tools", r.id)]
       ELSE IF r.method = "tools/call"
       THEN IF ~r.hasName
            THEN resp' = [resp EXCEPT ![p] = Aborted]
            ELSE \E ok \in BOOLEAN :
                   resp' = [resp EXCEPT ![p] =
                              IF ok
                              THEN RpcResult({}, b, r.id)
                              ELSE RpcError(-32603, "Internal error",
                                            "failed to call tool", r.id)]
       ELSE resp' = [resp EXCEPT ![p] =
                       RpcError(-32603, "Internal error", "method not found", r.id)]
    /\ UNCHANGED <<serverVars, cacheVars, now, catalog, procs, req, loc, prev>>

\* The requests of the paths through the handler: no server name, an unknown
\* one, a wrong verb, a body that is no JSON, an invalid envelope, and the
\* methods.
ServeRequests ==
    {BaseReq(""), BaseReq("nope"), BaseReq("A"), CallReq("A", "x"),
     [BaseReq("A") EXCEPT !.verb = "GET"],
     [BaseReq("A") EXCEPT !.body = "garbage"],
     [BaseReq("A") EXCEPT !.jsonrpc = "1.0"],
     [BaseReq("A") EXCEPT !.method = "initialize"]}

ServeProcs == {"h1", "h2"}

\* The server is up, the goroutine has made its clients and is about to
\* install them.
InitServe ==
    /\ splitMode = TRUE
    /\ mcpClients = {}
    /\ initMu = [readers |-> {}, writer |-> FALSE, pending |-> FALSE]
    /\ toolsCache = [b \in BackendNames |-> NoEntry]
    /\ cacheExpiry = [b \in BackendNames |-> NoExpiry]
    /\ cacheMu = "free"
    /\ initPc = "build"
    /\ initTodo = {}
    /\ tempMcpClients = {"A", "B"}
    /\ cfgDisabled = {}
    /\ extensions = [b \in BackendNames |-> NoExtensions]
    /\ client = NewClient
    /\ created = [b \in BackendNames |-> <<b \in {"A", "B"}>>]
    /\ now = 0
    /\ catalog \in ServerScenarios
    /\ procs = ServeProcs
    /\ pc = [p \in AllProcs |-> "idle"]
    /\ req = [p \in AllProcs |-> NoReq]
    /\ loc = [p \in AllProcs |-> NoLoc]
    /\ resp = [p \in AllProcs |-> NoResp]
    /\ toolsBy = [b \in BackendNames |-> Absent]
    /\ expiryBy = [b \in BackendNames |-> Absent]
    /\ prev = [p \in AllProcs |-> NoPrev]

NextServe ==
    \/ ~Fatal /\ InitLockCall
    \/ ~Fatal /\ InitLockTaken
    \/ ~Fatal /\ InitInstall
    \/ ~Fatal /\ InitUnlock
    \/ \E p \in procs, r \in ServeRequests : ServeRLock(p, r)
    \/ \E p \in procs : ServeGate(p)
    \/ \E p \in procs : ServePath(p)
    \/ \E p \in procs : ServeBody(p)
    \/ \E p \in procs : ~Fatal /\ NextRequest(p)

SpecServe == InitServe /\ [][NextServe]_vars

\* C37: on every path through handleJSONRPC the read lock of s.initMu is
\* released once for each acquisition: no handler calls RUnlock() holding no
\* read lock, the runtime never ends the process over it, and a handler that
\* has returned has called RUnlock() as often as RLock().
C37_RUnlockBalanced ==
    \A p \in procs :
        /\ pc[p] # "fatal"
        /\ loc[p].unheld = 0
        /\ pc[p] = "done" => loc[p].rlocks = loc[p].runlocks

\* ---------------------------------------------------------------------
\* two handlers, the cache and the install together
\* ---------------------------------------------------------------------

\* tools/list and tools/call of a flat-mode server.
LockRequests == {BaseReq("mcp"), CallReq("mcp", "x")}

\* main: a flat-mode server is up with its empty map, two requests can be in
\* flight, and the goroutine runs over the configured backends.
InitLocks ==
    /\ splitMode = FALSE
    /\ mcpClients = {}
    /\ initMu = [readers |-> {}, writer |-> FALSE, pending |-> FALSE]
    /\ toolsCache = [b \in BackendNames |-> NoEntry]
    /\ cacheExpiry = [b \in BackendNames |-> NoExpiry]
    /\ cacheMu = "free"
    /\ initPc = "build"
    /\ initTodo = {}
    /\ tempMcpClients = PairServers
    /\ cfgDisabled = {}
    /\ extensions = [b \in BackendNames |-> NoExtensions]
    /\ client = NewClient
    /\ created = [b \in BackendNames |-> <<b \in PairServers>>]
    /\ now = 0
    /\ catalog \in ServerScenarios
    /\ procs = PairProcs
    /\ pc = [p \in AllProcs |-> "idle"]
    /\ req = [p \in AllProcs |-> NoReq]
    /\ loc = [p \in AllProcs |-> NoLoc]
    /\ resp = [p \in AllProcs |-> NoResp]
    /\ toolsBy = [b \in BackendNames |-> Absent]
    /\ expiryBy = [b \in BackendNames |-> Absent]
    /\ prev = [p \in AllProcs |-> NoPrev]

\* A step of the handler p once its request is in.
HandlerStep(p) ==
    \/ ProcessRequest(p)
    \/ NextRequest(p)
    \/ ListStart(p)
    \/ ListLoop(p)
    \/ ListGot(p)
    \/ ListTool(p)
    \/ ConfLoop(p)
    \/ ConfGot(p)
    \/ CallStart(p)
    \/ CallLoop(p)
    \/ CallGot(p)
    \/ CallInvoke(p)
    \/ GetRead(p)
    \/ GetFetch(p)
    \/ GetLock(p)
    \/ GetStore(p)

\* A step of the initialization goroutine from server.initMu.Lock() on.
InstallStep ==
    \/ InitLockCall
    \/ InitLockTaken
    \/ InitInstall
    \/ InitUnlock

NextLocks ==
    \/ InitLockCall
    \/ InitLockTaken
    \/ InitInstall
    \/ InitUnlock
    \/ \E p \in procs, r \in LockRequests : HandleJSONRPC(p, r)
    \/ \E p \in procs : ProcessRequest(p)
    \/ \E p \in procs : NextRequest(p)
    \/ \E p \in procs : ListStart(p)
    \/ \E p \in procs : ListLoop(p)
    \/ \E p \in procs : ListGot(p)
    \/ \E p \in procs : ListTool(p)
    \/ \E p \in procs : ConfLoop(p)
    \/ \E p \in procs : ConfGot(p)
    \/ \E p \in procs : CallStart(p)
    \/ \E p \in procs : CallLoop(p)
    \/ \E p \in procs : CallGot(p)
    \/ \E p \in procs : CallInvoke(p)
    \/ \E p \in procs : GetRead(p)
    \/ \E p \in procs : GetFetch(p)
    \/ \E p \in procs : GetLock(p)
    \/ \E p \in procs : GetStore(p)

SpecLocks == InitLocks /\ [][NextLocks]_vars

\* Where a handler is while a call to a backend is under way.
BackendCallPcs == {"get_fetch", "call_invoke", "split_list", "split_call"}

\* Handler p is in flight and can take a step, or waits for s.cacheMu whose
\* holder can take one, or waits for s.initMu while the goroutine, holding
\* or about to hold it, can take one.
CanProceed(p) ==
    \/ ENABLED HandlerStep(p)
    \/ /\ pc[p] \in {"get_read", "get_lock"}
       /\ cacheMu \in procs \ {p}
       /\ ENABLED GetStore(cacheMu)
    \/ /\ pc[p] = "process"
       /\ initMu.writer \/ initMu.pending
       /\ ENABLED InstallStep

\* C38: handlers, cache gets and the install never block one another for
\* good: s.cacheMu is held only between Lock() and Unlock() of the store, so
\* not while a backend is called and not while s.initMu is being acquired;
\* every handler in flight can take a step or waits for a lock whose holder
\* can; and server.initMu.Lock() returns as soon as no handler holds the
\* read lock.
C38_NoDeadlock ==
    /\ cacheMu # "free" =>
          /\ cacheMu \in procs
          /\ pc[cacheMu] = "get_store"
          /\ cacheMu \in initMu.readers
    /\ \A p \in procs :
          /\ pc[p] \in BackendCallPcs \cup {"idle", "process"} => cacheMu # p
          /\ pc[p] # "idle" => CanProceed(p)
    /\ initPc = "lock" =>
          /\ \A q \in initMu.readers : q \in procs /\ CanProceed(q)
          /\ initMu.readers = {} => ENABLED InitLockTaken

\* C38's case: both handlers hold the read lock of the installed registry
\* and miss the cache for the same backend; h1 is inside
\* Lock()...Unlock() and h2 waits for s.cacheMu.
C38_Witness ==
    /\ initPc = "done"
    /\ initMu.readers = {"h1", "h2"}
    /\ cacheMu = "h1"
    /\ pc["h1"] = "get_store"
    /\ pc["h2"] = "get_lock"
    /\ loc["h1"].gServer = loc["h2"].gServer
    /\ ~ENABLED GetLock("h2")

\* ---------------------------------------------------------------------
\* one MCPClient, its Initialize and its Close
\* ---------------------------------------------------------------------

\* What a call on the client leaves alone.
clientFixed ==
    <<splitMode, mcpClients, initMu, initPc, initTodo, tempMcpClients,
      cfgDisabled, extensions, created, cacheVars, now, catalog, procs, req,
      loc, resp, prev>>

\* A goroutine calls c.Initialize(ctx).
CallInitialize(p) ==
    /\ pc[p] = "idle"
    /\ client.initCalls < MaxCalls
    /\ client' = [client EXCEPT !.initCalls = @ + 1]
    /\ pc' = [pc EXCEPT ![p] = "initialize"]
    /\ UNCHANGED clientFixed

\* c.initOnce.Do(func() {...}), first caller: stderrCtx, cancel :=
\* context.WithCancel(ctx); c.stderrCancel = cancel
InitializeOnce(p) ==
    /\ pc[p] = "initialize"
    /\ client.initOnce = "no"
    /\ client' = [client EXCEPT !.initOnce = "running", !.stderrCancel = TRUE,
                                !.log = Append(@, "set")]
    /\ pc' = [pc EXCEPT ![p] = "init_go"]
    /\ UNCHANGED clientFixed

\* go c.captureStderr(stderrCtx), and the function given to Do returns
InitializeGo(p) ==
    /\ pc[p] = "init_go"
    /\ client' = [client EXCEPT !.initOnce = "done", !.started = @ + 1]
    /\ pc' = [pc EXCEPT ![p] = "init_rest"]
    /\ UNCHANGED clientFixed

\* Do has returned, for a later caller once the first one's function is
\* over; c.client.Start and c.client.Initialize, and Initialize returns.
InitializeReturn(p) ==
    /\ \/ pc[p] = "init_rest"
       \/ pc[p] = "initialize" /\ client.initOnce = "done"
    /\ pc' = [pc EXCEPT ![p] = "idle"]
    /\ UNCHANGED <<client, clientFixed>>

\* A goroutine calls c.Close().
CallClose(p) ==
    /\ pc[p] = "idle"
    /\ client.closeCalls < MaxCalls
    /\ client' = [client EXCEPT !.closeCalls = @ + 1]
    /\ pc' = [pc EXCEPT ![p] = "close"]
    /\ UNCHANGED clientFixed

\* The mutant of CloseOnce: the function runs on every call of Close.
CloseOnceEveryCall(p) ==
    /\ pc[p] = "close"
    /\ client' = [client EXCEPT
                    !.closeOnce = "running",
                    !.log = Append(@, "closing"),
                    !.cancelled = IF client.stderrCancel THEN @ + 1 ELSE @,
                    !.stderrCancel = FALSE]
    /\ pc' = [pc EXCEPT ![p] = "close_client"]
    /\ UNCHANGED clientFixed

\* c.closeOnce.Do(func() {...}), first caller: if c.stderrCancel != nil
\* { c.stderrCancel(); c.stderrCancel = nil }
CloseOnce(p) ==
    /\ pc[p] = "close"
    /\ client.closeOnce = "no"
    /\ client' = [client EXCEPT
                    !.closeOnce = "running",
                    !.log = Append(@, "closing"),
                    !.cancelled = IF client.stderrCancel THEN @ + 1 ELSE @,
                    !.stderrCancel = FALSE]
    /\ pc' = [pc EXCEPT ![p] = "close_client"]
    /\ UNCHANGED clientFixed

\* err = c.client.Close(), and the function given to Do returns
CloseClient(p) ==
    /\ pc[p] = "close_client"
    /\ client' = [client EXCEPT !.closeOnce = "done", !.closed = @ + 1]
    /\ pc' = [pc EXCEPT ![p] = "close_ret"]
    /\ UNCHANGED clientFixed

\* Do has returned, for a later caller once the first one's function is
\* over; Close returns.
CloseReturn(p) ==
    /\ \/ pc[p] = "close_ret"
       \/ pc[p] = "close" /\ client.closeOnce = "done"
    /\ client' = [client EXCEPT !.closeReturns = @ + 1]
    /\ pc' = [pc EXCEPT ![p] = "idle"]
    /\ UNCHANGED clientFixed

\* The goroutines that call Initialize and Close on the client.
ClientProcs == {"h1", "h2", "h3"}

\* NewMCPClient has returned the client.
InitClient ==
    /\ splitMode = FALSE
    /\ mcpClients = {"A"}
    /\ initMu = [readers |-> {}, writer |-> FALSE, pending |-> FALSE]
    /\ toolsCache = [b \in BackendNames |-> NoEntry]
    /\ cacheExpiry = [b \in BackendNames |-> NoExpiry]
    /\ cacheMu = "free"
    /\ initPc = "done"
    /\ initTodo = {}
    /\ tempMcpClients = mcpClients
    /\ cfgDisabled = {}
    /\ extensions = [b \in BackendNames |-> NoExtensions]
    /\ client = NewClient
    /\ created = [b \in BackendNames |-> <<b \in mcpClients>>]
    /\ now = 0
    /\ catalog \in ServerScenarios
    /\ procs = ClientProcs
    /\ pc = [p \in AllProcs |-> "idle"]
    /\ req = [p \in AllProcs |-> NoReq]
    /\ loc = [p \in AllProcs |-> NoLoc]
    /\ resp = [p \in AllProcs |-> NoResp]
    /\ toolsBy = [b \in BackendNames |-> Absent]
    /\ expiryBy = [b \in BackendNames |-> Absent]
    /\ prev = [p \in AllProcs |-> NoPrev]

NextClient ==
    \/ \E p \in procs : CallInitialize(p)
    \/ \E p \in procs : InitializeOnce(p)
    \/ \E p \in procs : InitializeGo(p)
    \/ \E p \in procs : InitializeReturn(p)
    \/ \E p \in procs : CallClose(p)
    \/ \E p \in procs : CloseOnce(p)
    \/ \E p \in procs : CloseClient(p)
    \/ \E p \in procs : CloseReturn(p)

SpecClient == InitClient /\ [][NextClient]_vars

\* stderrCancel had been assigned by Initialize when Close tested it.
SetBeforeClosing ==
    \E i \in 1..Len(client.log), j \in 1..Len(client.log) :
        i < j /\ client.log[i] = "set" /\ client.log[j] = "closing"

\* C39, as the code has it: whatever the calls of Close and Initialize, in
\* sequence or at once, the underlying client is closed at most once, and
\* once as soon as a Close has returned; stderrCancel is called at most once,
\* and, once a Close has returned, once if Initialize had assigned it before
\* Close tested it and never otherwise; the stderr goroutine is started at
\* most once.
C39_CloseOnceCancelIfStarted ==
    /\ client.closed <= 1
    /\ client.cancelled <= 1
    /\ client.started <= 1
    /\ client.closeReturns > 0 =>
          /\ client.closed = 1
          /\ client.cancelled = IF SetBeforeClosing THEN 1 ELSE 0

\* C39's case: Initialize ran, then Close was called three times, two of
\* them at once; three calls returned after one cancellation and one close.
C39_Witness ==
    /\ client.started = 1
    /\ client.closeCalls = 3
    /\ client.closeReturns = 3
    /\ client.cancelled = 1
    /\ client.closed = 1
    /\ client.initCalls >= 2

\* C39 as stated: once a Close has returned, stderrCancel and the underlying
\* client's Close have each been called exactly once; the stderr goroutine is
\* started at most once.
C39_CloseAndCancelOnce ==
    /\ client.started <= 1
    /\ client.closeReturns > 0 =>
          /\ client.closed = 1
          /\ client.cancelled = 1

====
